---- MODULE Spec2Model ----
(***************************************************************************)
(* Verification model of the LongCat credential automation:               *)
(*   - create_longcat_account_and_api_key (src/longcat_automation.py),     *)
(*     the attempt retry loop with its try / except / finally,             *)
(*   - _longcat_user_current / _is_longcat_authenticated, the              *)
(*     authentication verifier.                                            *)
(* JSON values are modelled as tagged pairs of strings <<type, text>> so   *)
(* that Python's == and truthiness can be computed as Python computes them.*)
(***************************************************************************)
EXTENDS Integers, Sequences, FiniteSets, TLC

VARIABLES
    \* ---- arguments / configuration of create_longcat_account_and_api_key
    email,            \* the `email` argument: NoEmail when the caller gave none
    max_attempts,     \* the local max_attempts after lines 829-831
    backurl,          \* TRUE iff _extract_backurl(passport_login_url) is not None
    applyQuota,       \* config LONGCAT_APPLY_QUOTA
    max_attempts_arg, \* the max_attempts argument as passed
    \* ---- locals of create_longcat_account_and_api_key
    pc,               \* position in the function
    attempt,          \* loop variable of `for attempt in range(max_attempts)`
    attempt_email,    \* the identity of the running attempt
    page,             \* 0 is None, otherwise the id of the session init_browser returned
    exc,              \* the exception in flight inside the try block (NoErr when none)
    last_err,         \* last_err
    url,              \* where the page is after the post-login navigation
    reqs,             \* loop variable i of `for i in range(4)`: issuance requests sent
    raw,              \* raw: the last issuance answer
    record,           \* the Credential Record under construction
    pendingReturn,    \* TRUE while `return record` waits for the finally block
    \* ---- results
    result,           \* the record returned to the caller
    raised,           \* the error raised to the caller
    \* ---- the collaborators' state and the history the properties speak of
    openSessions,     \* ids of the browser sessions that are open
    sessionsOpened,   \* number of sessions init_browser has opened
    emailCalls,       \* number of calls of unified_create_email
    attemptsStarted,  \* number of loop iterations begun
    failCount,        \* number of attempts that ended in the except block
    lastFail,         \* what the most recent failing attempt failed with
    authTrue,         \* id of the session in which the verifier last returned true
    keyIssued,        \* TRUE once the running attempt obtained an api key
    quotaOutcome,     \* what apply_more_quota did in the running attempt
    atSuccess,        \* the counters at the moment `return record` was reached
    usedAfterClose,   \* TRUE once a session that is not open was interacted with
    persisted,        \* number of records written to the CSV / JSONL files
    issuedBody,       \* the response body the api key was parsed from
    allHtml,          \* TRUE while every issuance request of the attempt got an HTML response
    reloaded,         \* TRUE iff page.refresh() followed the most recent issuance request
    nonHtmlSeen,      \* TRUE once an issuance response of the attempt was not HTML
    lastAnswer,       \* the most recent issuance request's answer: "html", "text", "noanswer", "raise"
    otpFill,          \* what _fill_otp reported in the attempt: "none", "ok" or "failed"
    submitClicked,    \* TRUE once the attempt clicked the OTP submit control
    verifierCalled,   \* TRUE once the attempt called _is_longcat_authenticated
    emailEntered,     \* the identity typed into the login form in the attempt
    emailPolled,      \* the identity whose inbox the attempt polled
    identities,       \* the identity of every attempt begun, in order
    steps,            \* the steps of the current attempt that took place, in order
    \* ---- the authentication verifier taken alone
    vIn,              \* the environment of one _is_longcat_authenticated call
    vOut,             \* "pending" before the call, then "true", "false" or "raised"
    \* ---- wait_for_page_stable taken alone
    last_html_len,    \* last_html_len
    stable_count,     \* stable_count
    polls,            \* the outcome of every poll made so far, in order
    waitResult,       \* "running", then what the call returned: "true" or "false" ("raised" if it raised)
    caller,           \* the line of create_longcat_account_and_api_key that made the call
    callerOutcome,    \* "waiting", then "proceeds" or "fails"
    \* ---- _fill_otp taken alone
    digits,           \* len(digits): the number of digits of the code
    fill_attempt,     \* loop variable _attempt of `for _attempt in range(6)`
    otp_inputs,       \* len(otp_inputs): boxes the last _pick_otp_inputs call returned
    otpPc,            \* position in _fill_otp
    fillResult,       \* "running", then "true" or "false"
    enoughSeen,       \* TRUE once some lookup found at least len(digits) boxes
    boxWrites,        \* what was written into boxes so far: "none", "partial" or "full"
    typedIntoFocus,   \* TRUE once digits were typed into whatever had the focus
    lastCheck,        \* what the latest _continue_enabled call saw: the submit control, the in-page query
    \* ---- _extract_backurl and the post-login navigation taken alone
    passport_login_url,\* the login URL: whether it has a backurl parameter, and the parameter's text
    backurlValue,     \* UrlPending, then what _extract_backurl returned (UrlNone for None)
    navigated,        \* UrlPending, then the URL handed to page.get after the OTP submit
    \* ---- _pick_otp_inputs taken alone
    inputs,           \* page.eles("css:input"): the input elements in DOM order
    expected_len,     \* expected_len
    picked,           \* the elements _pick_otp_inputs returned, in order
    pickPc,           \* "ready" before the call, "done" after it
    \* ---- the CSV persistence of lines 1093-1152 taken alone
    csvFile,          \* the file at csv_path: whether it exists, and its lines
    csvRecord,        \* the Credential Record being saved
    csvPc,            \* "ensure", "append", "done"
    priorHeader,      \* the first row of the file before the save (<<>> when absent or empty)
    \* ---- get_verification_code (email_service.py) taken alone
    mailProvider,     \* "gptmail" or "duckmail"
    hasMailToken,     \* DuckMail: self._tokens holds a token for the mailbox
    max_retries,      \* the retries in force (line 199 / 465)
    pollIndex,        \* the loop variable i, as the number of rounds finished
    pollsMade,        \* calls of get_emails / get_messages so far
    last_error,       \* last_error
    last_time,        \* last_time, 0 for None
    mailPc,           \* "entry", "loop", "done"
    mailResult,       \* the triple returned
    lastInbox,        \* the inbox of the poll that returned a code
    missed,           \* an earlier poll held a token in a subject or body and did not return
    missedVisible,    \* an earlier poll held a token where the provider looks and did not return
    \* ---- the job state of hf_server.py: POST /run and GET /status handlers, the scheduler, the job threads
    stateLock,        \* STATE.lock: LockFree or the thread that holds it
    stateRunning,     \* STATE.running
    state_last_exit_code,\* STATE.last_exit_code: "None", 0 or 1
    handlerPc,        \* position of each POST /run handler thread in do_POST
    handlerReply,     \* the JSON body each POST /run handler has sent
    statusPc,         \* position of the GET /status handler thread
    autoRun,          \* auto of _scheduler_loop (AUTO_RUN_ON_START)
    periodic,         \* every_s > 0 in _scheduler_loop
    schedPc,          \* position of the scheduler thread
    ticks,            \* rounds of the scheduler's while loop begun
    jobPc,            \* position of each job thread in _run_job_background, in order of start
    jobExit,          \* exit_code of each job thread
    \* ---- run.py: the commands run and gpt-load-sync
    runCmd,           \* args.cmd: "run" or "gpt-load-sync"
    gpt_load_auth_key,\* GPT_LOAD_AUTH_KEY, a text
    gpt_load_enabled, \* GPT_LOAD_SYNC_ENABLED
    runCount,         \* count
    results,          \* len(results): keys generated so far
    runPc,            \* position in main
    exitStatus,       \* "running", then how the process ended
    syncCalls,        \* calls of sync_keys_to_gpt_load / sync_keys_file_to_gpt_load
    missingAuthLogged,\* warnings about the missing auth_key logged so far
    keysFile,         \* the lines of LONGCAT_KEYS_FILE
    runLog,           \* what cmd_generate has done so far, in order
    \* ---- the DuckMail service object of the process: accounts, _tokens, and the attempts that use it
    duckAccounts,     \* the addresses that exist at the DuckMail server
    duck_tokens,      \* duckmail_service._tokens: address -> token
    tokAttempt,       \* attempts begun in this process, over all runs
    tokEmail,         \* attempt_email of the attempt in progress
    tokPc,            \* position of the attempt in progress
    tokSerial,        \* logins answered with a token so far
    storedBy,         \* for every token stored: the attempt and the address
    lookups,          \* for every self._tokens.get(email): the attempt, the address, the token found
    \* ---- the post-login navigation of lines 916-950 taken alone
    navBackurl,       \* whether _extract_backurl found a backurl
    navUrl,           \* page.url, by the page it names
    navTargets,       \* the target of every page.get made so far, in order
    navPc,            \* position in lines 916-950
    navResult,        \* "running", then "authenticated", "sso_failed", "user_current_failed" or "verifier_raised"
    firstLanding,     \* page.url when line 933 reads it ("none" before)
    navAuthCalls,     \* calls of _is_longcat_authenticated so far
    cont2,            \* cont2: "pending", then the selector that found the submit control, or "None"
    submitClicks,     \* calls of cont2.click() so far
    \* ---- the form stage of apply_more_quota (lines 1700-2072) taken alone
    quotaPage,        \* the quota form as the script meets it: what can be filled, the submit button, whether the script fails
    form_result,      \* form_result: what page.run_js(js) gave, as a mapping
    quotaClicked,     \* "no", or the state the submit button reported when the script clicked it
    quotaPc,          \* "script", "branch", "toast", "probe", "done"
    quotaProbes,      \* calls of _quota_form_visible in the confirmation loop so far
    quotaConfirmed,   \* "no", "toast" (a success text was seen) or "gone" (the form is no longer visible)
    quotaReturn,      \* what apply_more_quota returned: ok and error
    \* ---- sync_keys_to_gpt_load (gpt_load_sync.py) called several times on one state file
    stateFile,        \* the lines of the state file: one hash per line
    syncCallNo,       \* calls of sync_keys_to_gpt_load begun so far
    syncArgs,         \* keys, force and poll of the call in progress
    new_keys,         \* new_keys of the call in progress
    syncPc,           \* position in sync_keys_to_gpt_load: "idle" between calls
    final_status,     \* "None", or the TaskStatus that was not running: its error
    statusPolls,      \* get_task_status calls of the call in progress
    requests,         \* the requests this call made of the server, in order
    syncOut,          \* what the latest call returned or raised
    stateBefore,      \* the state file as it was when the call in progress began
    recordedEarlier,  \* the keys whose hashes an earlier call has appended
    \* ---- _retry (gpt_load_sync.py) around one request of GptLoadClient
    endpoint,         \* which request is wrapped: list_groups, add_keys_async or get_task_status
    retries,          \* retries
    retryAttempt,     \* the loop variable attempt, as the number of rounds finished
    fnCalls,          \* what every call of fn() so far ended with, in order
    retryLast,        \* last: "None" or the retryable failure kept
    retryPc,          \* "loop", "done"
    retryEnd,         \* how _retry ended: what it returned or raised
    \* ---- hf_server.py: the gpt-load process, its watchdog and the threads that start and restart it
    glPc,             \* where each thread stands
    glProc,           \* GPT_LOAD.proc: 0 for None, or the number of the process launched
    alive,            \* the gpt-load processes launched and not yet exited
    launched,         \* processes launched so far
    old,              \* old of each thread inside _restart_gpt_load: 0 for None
    cooling,          \* GPT_LOAD.last_restart_at is less than the cooldown ago
    wdFail,           \* fail of _gpt_load_watchdog_loop
    wdLog             \* the probes of the watchdog and its restart requests, in order

orchVars == <<email, max_attempts, backurl, applyQuota, max_attempts_arg, pc,
              attempt, attempt_email, page, exc, last_err, url, reqs, raw, record, pendingReturn, result,
              raised, openSessions, sessionsOpened, emailCalls, attemptsStarted,
              failCount, lastFail, authTrue, keyIssued, quotaOutcome, atSuccess,
              usedAfterClose, persisted, issuedBody, allHtml, reloaded, nonHtmlSeen, lastAnswer,
              otpFill, submitClicked, verifierCalled, emailEntered, emailPolled,
              identities, steps>>
authVars == <<vIn, vOut>>
stableVars == <<last_html_len, stable_count, polls, waitResult, caller,
                 callerOutcome>>
otpVars == <<digits, fill_attempt, otp_inputs, otpPc, fillResult, enoughSeen,
                 boxWrites, typedIntoFocus, lastCheck>>
urlVars == <<passport_login_url, backurlValue, navigated>>
pickVars == <<inputs, expected_len, picked, pickPc>>
csvVars == <<csvFile, csvRecord, csvPc, priorHeader>>
mailVars == <<mailProvider, hasMailToken, max_retries, pollIndex, pollsMade,
                 last_error, last_time, mailPc, mailResult, lastInbox,
                 missed, missedVisible>>
srvVars == <<stateLock, stateRunning, state_last_exit_code, handlerPc,
                 handlerReply, statusPc, autoRun, periodic, schedPc, ticks,
                 jobPc, jobExit>>
runVars == <<runCmd, gpt_load_auth_key, gpt_load_enabled, runCount, results,
                 runPc, exitStatus, syncCalls, missingAuthLogged, keysFile,
                 runLog>>
tokVars == <<duckAccounts, duck_tokens, tokAttempt, tokEmail, tokPc,
                 tokSerial, storedBy, lookups>>
navVars == <<navBackurl, navUrl, navTargets, navPc, navResult, firstLanding,
                 navAuthCalls, cont2, submitClicks>>
quotaVars == <<quotaPage, form_result, quotaClicked, quotaPc, quotaProbes,
                 quotaConfirmed, quotaReturn>>
syncVars == <<stateFile, syncCallNo, syncArgs, new_keys, syncPc,
                 final_status, statusPolls, requests, syncOut, stateBefore,
                 recordedEarlier>>
retryVars == <<endpoint, retries, retryAttempt, fnCalls, retryLast, retryPc,
                 retryEnd>>
glVars == <<glPc, glProc, alive, launched, old, cooling, wdFail, wdLog>>
vars == <<orchVars, authVars, stableVars, otpVars, urlVars, pickVars,
          csvVars, mailVars, srvVars, runVars, tokVars, navVars, quotaVars,
          syncVars, retryVars, glVars>>

(***************************************************************************)
(* Bounds                                                                  *)
(***************************************************************************)
MaxAttempts == 3      \* largest max_attempts argument explored

(***************************************************************************)
(* Program constants                                                       *)
(***************************************************************************)
IssuanceTries == 4    \* `for i in range(4)`, issuance requests per attempt

(***************************************************************************)
(* JSON values and Python's view of them                                   *)
(***************************************************************************)
JMissing == <<"missing", "">>     \* dict.get(key) of an absent key: None
JNull == <<"null", "">>

\* values the "code" member of an envelope takes
JCodes == { JMissing, JNull, <<"int", "0">>, <<"int", "1">>, <<"float", "0.0">>,
            <<"bool", "false">>, <<"bool", "true">>, <<"str", "0">> }

\* values the "data" member of an envelope takes
JDatas == { JMissing, JNull, <<"str", "">>, <<"str", "ak_abc123">>,
            <<"int", "0">>, <<"int", "5">>, <<"bool", "false">>, <<"bool", "true">>,
            <<"obj", "{}">>, <<"obj", "{id:1}">>, <<"list", "[]">>, <<"list", "[1]">> }

\* Python: v == 0 (hence `v != 0` is its negation); False == 0 and 0.0 == 0 hold
PyEqZero(v) == v \in { <<"int", "0">>, <<"float", "0.0">>, <<"bool", "false">> }

\* Python: bool(v)
PyTruthy(v) ==
    CASE v[1] \in {"missing", "null"} -> FALSE
      [] v[1] = "int" -> v[2] # "0"
      [] v[1] = "float" -> v[2] # "0.0"
      [] v[1] = "bool" -> v[2] = "true"
      [] v[1] = "str" -> v[2] # ""
      [] v[1] = "obj" -> v[2] # "{}"
      [] v[1] = "list" -> v[2] # "[]"

\* Python: isinstance(v, str)
PyIsStr(v) == v[1] = "str"

(***************************************************************************)
(* Response bodies (the text of an HTTP response)                          *)
(*   kind: "empty"      the empty string                                   *)
(*         "timeoutlit" the literal text timeout                           *)
(*         "notjson"    text json.loads rejects                            *)
(*         "obj"        a JSON object with members code and data           *)
(*         "list" / "scalar" / "null"  other JSON documents                *)
(*   html: the text contains "<html" or "<!doctype" (case-insensitive)     *)
(***************************************************************************)
Body(k, h, c, d) == [kind |-> k, html |-> h, code |-> c, data |-> d]

EmptyBody == Body("empty", FALSE, JMissing, JMissing)

ObjBodies == { Body("obj", h, c, d) : h \in BOOLEAN, c \in JCodes, d \in JDatas }

OtherBodies == { EmptyBody,
                 Body("timeoutlit", FALSE, JMissing, JMissing),
                 Body("notjson", FALSE, JMissing, JMissing),
                 Body("notjson", TRUE, JMissing, JMissing),
                 Body("list", FALSE, JMissing, JMissing),
                 Body("scalar", FALSE, JMissing, JMissing),
                 Body("null", FALSE, JMissing, JMissing) }

Bodies == ObjBodies \cup OtherBodies

\* Python truthiness of the text itself
TextTruthy(b) == b.kind # "empty"

\* json.loads(text) succeeds
JsonLoads(b) == b.kind \in {"obj", "list", "scalar", "null"}

\* isinstance(json.loads(text), dict)
IsDict(b) == b.kind = "obj"

(***************************************************************************)
(* _longcat_user_current and _is_longcat_authenticated                     *)
(*   An environment of one call:                                           *)
(*     onLongcat  "longcat.chat" in page.url                               *)
(*     navRaises  page.get / wait_for_page_stable raises (lines 748-754)   *)
(*     js         what page.run_js does: "raise", "none" (returns None)    *)
(*                or "text" (returns the string `body`)                    *)
(***************************************************************************)
AuthEnv(o, n, j, b) == [onLongcat |-> o, navRaises |-> n, js |-> j, body |-> b]

AuthEnvs == { AuthEnv(o, n, "text", b) : o \in BOOLEAN, n \in BOOLEAN, b \in Bodies }
            \cup { AuthEnv(o, n, j, EmptyBody) :
                     o \in BOOLEAN, n \in BOOLEAN, j \in {"raise", "none"} }

PyNone == Body("null", FALSE, JMissing, JMissing)

\* lines 746-773: <<"raise", _>> when the call raises, else <<"return", value>>
\* (value is PyNone for None, otherwise the parsed document)
LongcatUserCurrent(env) ==
    IF env.js = "raise" THEN <<"raise", PyNone>>
    ELSE IF env.js = "none" \/ ~TextTruthy(env.body) \/ env.body.kind = "timeoutlit"
         THEN <<"return", PyNone>>
    ELSE IF ~JsonLoads(env.body) THEN <<"return", PyNone>>
    ELSE <<"return", env.body>>

\* lines 776-783: "true", "false", or "raised" when the exception of
\* _longcat_user_current propagates (nothing in the function catches it)
IsLongcatAuthenticated(env) ==
    LET r == LongcatUserCurrent(env)
        data == r[2]
    IN IF r[1] = "raise" THEN "raised"
       ELSE IF ~IsDict(data) THEN "false"
       ELSE IF ~PyEqZero(data.code) THEN "false"
       ELSE IF PyTruthy(data.data) THEN "true" ELSE "false"


(***************************************************************************)
(* create_longcat_account_and_api_key: values                              *)
(***************************************************************************)
NoEmail == <<"none", 0>>                  \* email argument None / ""
FixedEmail == <<"fixed", 0>>              \* an email supplied by the caller
IssuedEmail(n) == <<"issued", n>>         \* the n-th identity of the email collaborator

NoErr == [msg |-> "", attempt |-> -1]     \* no exception (last_err = None)
\* an exception object; `attempt` tags the attempt in which it was created
Err(m, a) == [msg |-> m, attempt |-> a]

MsgEmailCreate == "Email creation failed (unified_create_email)"
MsgNoEmailMethod == "Cannot find 'Continue with email' button"
MsgNoEmailInput == "Cannot find email input"
MsgNoContinue == "Cannot find Continue button after email input"
MsgNoCode == "Failed to get verification code"
MsgOtpFill == "OTP fill failed (inputs did not match expected digits)"
MsgSsoFailed == "Not authenticated on LongCat (SSO failed / fallback login)"
MsgUserCurrent == "Not authenticated on LongCat (user-current check failed)"
MsgRequestFailed == "API key creation request failed or timed out"
MsgNotJson == "Unexpected API response (not JSON)"
MsgCreateFailed == "API key creation failed"
MsgKeyMissing == "API key missing in response"
MsgFlowFailed == "LongCat flow failed"
\* exceptions raised by the collaborators (browser library, Python runtime)
MsgBrowserStart == "browser start failed"
MsgPageError == "page error"
MsgRunJsError == "run_js error"
MsgAttributeError == "AttributeError: object has no attribute 'get'"
MsgQuotaException == "quota exception"

NoRecord == [email |-> NoEmail, api_key |-> "", attempt |-> -1,
             quota_applied |-> "unset", quota_applied_at |-> "unset",
             quota_apply_error |-> "unset"]

\* raw, the answer of _create_key_once as the loop of lines 1003-1030 leaves it
RawNone == [k |-> "none", body |-> EmptyBody]          \* None / ""
RawTimeout == [k |-> "timeout", body |-> EmptyBody]    \* the string "timeout"
\* the wrapper JSON of an answer whose text is HTML (the loop leaves it in raw)
RawWrapper == [k |-> "wrapper", body |-> Body("notjson", TRUE, JMissing, JMissing)]
RawText(b) == [k |-> "text", body |-> b]               \* unwrapped: raw = text

\* lines 829-831: max_attempts = int(max_attempts or 1); if <= 0: 1
NormMaxAttempts(n) == IF n = 0 THEN 1 ELSE IF n <= 0 THEN 1 ELSE n

(***************************************************************************)
(* lines 1032-1045: what the parsed issuance answer yields,                *)
(* <<"ok", api_key>> or <<"fail", message>>                                *)
(***************************************************************************)
ParseIssuance(r) ==
    IF r.k \in {"none", "timeout"} THEN <<"fail", MsgRequestFailed>>
    ELSE IF r.k = "wrapper" THEN <<"fail", MsgCreateFailed>>  \* the wrapper has no "code"
    ELSE LET b == r.body IN
         IF ~TextTruthy(b) \/ b.kind = "timeoutlit" THEN <<"fail", MsgRequestFailed>>
         ELSE IF ~JsonLoads(b) THEN <<"fail", MsgNotJson>>
         ELSE IF ~IsDict(b) THEN <<"fail", MsgAttributeError>>   \* resp.get raises
         ELSE IF ~PyEqZero(b.code) THEN <<"fail", MsgCreateFailed>>
         ELSE IF ~PyTruthy(b.data) \/ ~PyIsStr(b.data) THEN <<"fail", MsgKeyMissing>>
         ELSE <<"ok", b.data[2]>>

(***************************************************************************)
(* apply_more_quota: the dicts its return statements build                 *)
(***************************************************************************)
QuotaResult(ok, e, at) == [kind |-> "return", ok |-> ok, error |-> e, applied_at |-> at]

QuotaFailures == { "apply button not found",
                   "apply button disabled (frontend thinks no API key yet)",
                   "apply button click failed",
                   "quota form did not open",
                   "form script error",
                   "industry field not selected",
                   "usage scenario field not found/filled",
                   "agreement checkbox not found/clicked",
                   "submit button disabled (required fields missing or UI not updated yet)",
                   "submit button not found/clicked" }

QuotaReturns == { QuotaResult(FALSE, e, "") : e \in QuotaFailures }
                \cup { QuotaResult(FALSE, "quota submit not confirmed", "ts"),
                       QuotaResult(TRUE, "", "ts") }

QuotaRaise == [kind |-> "raise", ok |-> FALSE, error |-> MsgQuotaException, applied_at |-> ""]
QuotaSkipped == [kind |-> "skipped", ok |-> FALSE, error |-> "", applied_at |-> ""]
QuotaNotRun == [kind |-> "notrun", ok |-> FALSE, error |-> "", applied_at |-> ""]

QuotaOutcomes == QuotaReturns \cup {QuotaRaise}

\* lines 1056-1078: the three quota fields of the record
QuotaFields(q) ==
    IF q.kind = "skipped"
    THEN [quota_applied |-> "None", quota_applied_at |-> "None", quota_apply_error |-> ""]
    ELSE IF q.kind = "raise"
    THEN [quota_applied |-> "False", quota_applied_at |-> "None", quota_apply_error |-> q.error]
    ELSE [quota_applied |-> IF q.ok THEN "True" ELSE "False",
          quota_applied_at |-> IF q.applied_at = "" THEN "None" ELSE q.applied_at,
          quota_apply_error |-> q.error]

\* what one call of the verifier can answer, over every environment
AuthOutcomes == { IsLongcatAuthenticated(env) : env \in AuthEnvs }

(***************************************************************************)
(* The value of each component's variables while another one is examined   *)
(***************************************************************************)
StableIdle ==
    /\ last_html_len = 0 /\ stable_count = 0 /\ polls = <<>>
    /\ waitResult = "idle" /\ caller = 0 /\ callerOutcome = "idle"

OtpIdle ==
    /\ digits = 0 /\ fill_attempt = 0 /\ otp_inputs = 0 /\ otpPc = "idle"
    /\ fillResult = "idle" /\ enoughSeen = FALSE /\ boxWrites = "none"
    /\ typedIntoFocus = FALSE /\ lastCheck = <<"unchecked", "skipped">>

UrlIdle ==
    /\ passport_login_url = [has |-> FALSE, text |-> <<>>]
    /\ backurlValue = <<"idle">> /\ navigated = <<"idle">>

PickIdle ==
    /\ inputs = <<>> /\ expected_len = 0 /\ picked = <<>> /\ pickPc = "idle"

CsvIdle ==
    /\ csvFile = [exists |-> FALSE, lines |-> <<>>]
    /\ csvRecord = [email |-> <<>>, api_key_name |-> <<>>, api_key |-> <<>>,
                    created_at |-> <<>>, quota_applied |-> "None",
                    quota_applied_at |-> <<>>, quota_apply_error |-> <<>>]
    /\ csvPc = "idle" /\ priorHeader = <<>>

MailIdle ==
    /\ mailProvider = "gptmail" /\ hasMailToken = FALSE /\ max_retries = 1
    /\ pollIndex = 0 /\ pollsMade = 0 /\ last_error = "" /\ last_time = 0
    /\ mailPc = "idle" /\ mailResult = [code |-> <<>>, err |-> "", time |-> 0]
    /\ lastInbox = <<>> /\ missed = FALSE /\ missedVisible = FALSE

SrvIdle ==
    /\ stateLock = <<"free", 0>> /\ stateRunning = FALSE /\ state_last_exit_code = "None"
    /\ handlerPc = <<>> /\ handlerReply = <<>> /\ statusPc = "idle"
    /\ autoRun = FALSE /\ periodic = FALSE /\ schedPc = "idle" /\ ticks = 0
    /\ jobPc = <<>> /\ jobExit = <<>>

RunIdle ==
    /\ runCmd = "none" /\ gpt_load_auth_key = <<>> /\ gpt_load_enabled = FALSE
    /\ runCount = 0 /\ results = 0 /\ runPc = "idle" /\ exitStatus = "idle"
    /\ syncCalls = 0 /\ missingAuthLogged = 0
    /\ keysFile = <<>> /\ runLog = <<>>

TokIdle ==
    /\ duckAccounts = {} /\ duck_tokens = <<>> /\ tokAttempt = 0 /\ tokEmail = "None"
    /\ tokPc = "off" /\ tokSerial = 0 /\ storedBy = <<>> /\ lookups = <<>>

NavIdle ==
    /\ navBackurl = FALSE /\ navUrl = "passport" /\ navTargets = <<>>
    /\ navPc = "off" /\ navResult = "running" /\ firstLanding = "none"
    /\ navAuthCalls = 0 /\ cont2 = "pending" /\ submitClicks = 0

QuotaIdle ==
    /\ quotaPage = <<>> /\ form_result = <<>> /\ quotaClicked = "no"
    /\ quotaPc = "off" /\ quotaProbes = 0 /\ quotaConfirmed = "no"
    /\ quotaReturn = <<>>

SyncIdle ==
    /\ stateFile = <<>> /\ syncCallNo = 0 /\ syncArgs = <<>> /\ new_keys = <<>>
    /\ syncPc = "off" /\ final_status = "None" /\ statusPolls = 0
    /\ requests = <<>> /\ syncOut = <<>> /\ stateBefore = <<>>
    /\ recordedEarlier = {}

RetryIdle ==
    /\ endpoint = "none" /\ retries = 0 /\ retryAttempt = 0 /\ fnCalls = <<>>
    /\ retryLast = <<"None", "">> /\ retryPc = "off" /\ retryEnd = <<"running", "">>

GlIdle ==
    /\ glPc = <<>> /\ glProc = 0 /\ alive = {} /\ launched = 0 /\ old = <<>>
    /\ cooling = FALSE /\ wdFail = 0 /\ wdLog = <<>>
(***************************************************************************)
(* create_longcat_account_and_api_key: the state machine                   *)
(***************************************************************************)
\* every interaction with `page` goes through the session the variable names
Touch == usedAfterClose' = (usedAfterClose \/ page \notin openSessions)

\* raise inside the try block (lines 850-1156): control goes to the except clause
Throw(m) ==
    /\ exc' = Err(m, attempt)
    /\ lastFail' = Err(m, attempt)
    /\ pc' = "except"

\* the steps of the current attempt, in the order they took place; a step
\* taken again right after itself (the second verifier call, the next
\* issuance request) is recorded once
Recorded(s) ==
    IF steps # <<>> /\ steps[Len(steps)] = s THEN steps ELSE Append(steps, s)

\* a step that ends by raising is not recorded ...
StepDone(s) == steps' = IF pc' = "except" THEN steps ELSE Recorded(s)

\* ... unless the step is the call itself, whatever it answers
StepTried(s) == steps' = Recorded(s)

OrchIdleAuth == vIn = AuthEnv(TRUE, FALSE, "none", EmptyBody) /\ vOut = "idle"

Init ==
    /\ email \in {NoEmail, FixedEmail}
    /\ max_attempts_arg \in 0 .. MaxAttempts
    /\ max_attempts = NormMaxAttempts(max_attempts_arg)
    /\ backurl \in BOOLEAN
    /\ applyQuota \in BOOLEAN
    /\ pc = "loop"
    /\ attempt = 0
    /\ attempt_email = NoEmail
    /\ page = 0
    /\ exc = NoErr
    /\ last_err = NoErr
    /\ url = "passport"
    /\ reqs = 0
    /\ raw = RawNone
    /\ record = NoRecord
    /\ pendingReturn = FALSE
    /\ result = NoRecord
    /\ raised = NoErr
    /\ openSessions = {}
    /\ sessionsOpened = 0
    /\ emailCalls = 0
    /\ attemptsStarted = 0
    /\ failCount = 0
    /\ lastFail = NoErr
    /\ authTrue = 0
    /\ keyIssued = FALSE
    /\ quotaOutcome = QuotaNotRun
    /\ atSuccess = <<-1, 0, 0, 0>>
    /\ usedAfterClose = FALSE
    /\ persisted = 0
    /\ issuedBody = EmptyBody
    /\ allHtml = TRUE
    /\ reloaded = FALSE
    /\ nonHtmlSeen = FALSE
    /\ lastAnswer = "none"
    /\ otpFill = "none"
    /\ submitClicked = FALSE
    /\ verifierCalled = FALSE
    /\ emailEntered = NoEmail
    /\ emailPolled = NoEmail
    /\ identities = <<>>
    /\ steps = <<>>
    /\ OrchIdleAuth
    /\ StableIdle
    /\ OtpIdle
    /\ UrlIdle
    /\ PickIdle
    /\ CsvIdle
    /\ MailIdle
    /\ SrvIdle
    /\ RunIdle
    /\ TokIdle
    /\ NavIdle
    /\ QuotaIdle
    /\ SyncIdle
    /\ RetryIdle
    /\ GlIdle

\* a loop that keeps the identity of the previous attempt when there is one
StartAttemptReuseIdentity ==
    /\ pc = "loop"
    /\ attemptsStarted' = attemptsStarted + 1
    /\ page' = 0
    /\ exc' = NoErr
    /\ reqs' = 0
    /\ raw' = RawNone
    /\ record' = NoRecord
    /\ keyIssued' = FALSE
    /\ quotaOutcome' = QuotaNotRun
    /\ url' = "passport"
    /\ allHtml' = TRUE
    /\ reloaded' = FALSE
    /\ nonHtmlSeen' = FALSE
    /\ lastAnswer' = "none"
    /\ otpFill' = "none"
    /\ submitClicked' = FALSE
    /\ verifierCalled' = FALSE
    /\ emailEntered' = NoEmail
    /\ emailPolled' = NoEmail
    /\ IF email # NoEmail \/ attempt_email # NoEmail
       THEN /\ attempt_email' = IF email # NoEmail THEN email ELSE attempt_email
            /\ pc' = "init_browser"
            /\ UNCHANGED <<emailCalls, raised>>
       ELSE /\ emailCalls' = emailCalls + 1
            /\ \/ /\ attempt_email' = IssuedEmail(emailCalls + 1)
                  /\ pc' = "init_browser"
                  /\ UNCHANGED raised
               \/ \* unified_create_email returned no email: line 840 raises
                  \* outside the try block, straight to the caller
                  /\ attempt_email' = NoEmail
                  /\ raised' = Err(MsgEmailCreate, attempt)
                  /\ pc' = "raised"
    /\ identities' = Append(identities, attempt_email')
    /\ steps' = <<>>
    /\ UNCHANGED <<email, max_attempts, backurl, applyQuota, max_attempts_arg,
                 attempt, last_err, pendingReturn, result, openSessions,
                 sessionsOpened, failCount, lastFail, authTrue, atSuccess,
                 usedAfterClose, persisted, issuedBody, authVars, stableVars,
                 otpVars, urlVars, pickVars, csvVars, mailVars, srvVars,
                 runVars, tokVars, navVars, quotaVars, syncVars, retryVars,
                 glVars>>

\* lines 834-849: the head of one loop iteration: the identity is obtained when
\* the caller gave no email, and page = None. The other locals of the previous
\* iteration are dead here (each is assigned before it is read) and are reset.
StartAttempt ==
    /\ pc = "loop"
    /\ attemptsStarted' = attemptsStarted + 1
    /\ page' = 0
    /\ exc' = NoErr
    /\ reqs' = 0
    /\ raw' = RawNone
    /\ record' = NoRecord
    /\ keyIssued' = FALSE
    /\ quotaOutcome' = QuotaNotRun
    /\ url' = "passport"
    /\ allHtml' = TRUE
    /\ reloaded' = FALSE
    /\ nonHtmlSeen' = FALSE
    /\ lastAnswer' = "none"
    /\ otpFill' = "none"
    /\ submitClicked' = FALSE
    /\ verifierCalled' = FALSE
    /\ emailEntered' = NoEmail
    /\ emailPolled' = NoEmail
    /\ IF email # NoEmail
       THEN /\ attempt_email' = email
            /\ pc' = "init_browser"
            /\ UNCHANGED <<emailCalls, raised>>
       ELSE /\ emailCalls' = emailCalls + 1
            /\ \/ /\ attempt_email' = IssuedEmail(emailCalls + 1)
                  /\ pc' = "init_browser"
                  /\ UNCHANGED raised
               \/ \* unified_create_email returned no email: line 840 raises
                  \* outside the try block, straight to the caller
                  /\ attempt_email' = NoEmail
                  /\ raised' = Err(MsgEmailCreate, attempt)
                  /\ pc' = "raised"
    /\ identities' = Append(identities, attempt_email')
    /\ steps' = <<>>
    /\ UNCHANGED <<email, max_attempts, backurl, applyQuota, max_attempts_arg,
                 attempt, last_err, pendingReturn, result, openSessions,
                 sessionsOpened, failCount, lastFail, authTrue, atSuccess,
                 usedAfterClose, persisted, issuedBody, authVars, stableVars,
                 otpVars, urlVars, pickVars, csvVars, mailVars, srvVars,
                 runVars, tokVars, navVars, quotaVars, syncVars, retryVars,
                 glVars>>

\* line 851: page = init_browser()
InitBrowser ==
    /\ pc = "init_browser"
    /\ \/ /\ sessionsOpened' = sessionsOpened + 1
          /\ page' = sessionsOpened + 1
          /\ openSessions' = openSessions \cup {sessionsOpened + 1}
          /\ pc' = "open_login"
          /\ UNCHANGED <<exc, lastFail>>
       \/ /\ Throw(MsgBrowserStart)
          /\ UNCHANGED <<sessionsOpened, page, openSessions>>
    /\ StepDone("session_opened")
    /\ UNCHANGED <<email, max_attempts, backurl, applyQuota, max_attempts_arg,
                 attempt, attempt_email, last_err, url, reqs, raw, record,
                 pendingReturn, result, raised, emailCalls, attemptsStarted,
                 failCount, authTrue, keyIssued, quotaOutcome, atSuccess,
                 usedAfterClose, persisted, issuedBody, allHtml, reloaded,
                 nonHtmlSeen, lastAnswer, otpFill, submitClicked,
                 verifierCalled, emailEntered, emailPolled, identities,
                 authVars, stableVars, otpVars, urlVars, pickVars, csvVars,
                 mailVars, srvVars, runVars, tokVars, navVars, quotaVars,
                 syncVars, retryVars, glVars>>

\* lines 853-855: page.get(passport_login_url); wait_for_page_stable
OpenLogin ==
    /\ pc = "open_login"
    /\ Touch
    /\ \/ pc' = "email_method" /\ UNCHANGED <<exc, lastFail>>
       \/ Throw(MsgPageError)
    /\ StepDone("login_page")
    /\ UNCHANGED <<email, max_attempts, backurl, applyQuota, max_attempts_arg,
                 attempt, attempt_email, page, last_err, url, reqs, raw,
                 record, pendingReturn, result, raised, openSessions,
                 sessionsOpened, emailCalls, attemptsStarted, failCount,
                 authTrue, keyIssued, quotaOutcome, atSuccess, persisted,
                 issuedBody, allHtml, reloaded, nonHtmlSeen, lastAnswer,
                 otpFill, submitClicked, verifierCalled, emailEntered,
                 emailPolled, identities, authVars, stableVars, otpVars,
                 urlVars, pickVars, csvVars, mailVars, srvVars, runVars,
                 tokVars, navVars, quotaVars, syncVars, retryVars, glVars>>

\* lines 857-866: find and click "Continue with email"
EmailMethod ==
    /\ pc = "email_method"
    /\ Touch
    /\ \/ pc' = "fill_email" /\ UNCHANGED <<exc, lastFail>>
       \/ Throw(MsgNoEmailMethod)
       \/ Throw(MsgPageError)
    /\ StepDone("email_method")
    /\ UNCHANGED <<email, max_attempts, backurl, applyQuota, max_attempts_arg,
                 attempt, attempt_email, page, last_err, url, reqs, raw,
                 record, pendingReturn, result, raised, openSessions,
                 sessionsOpened, emailCalls, attemptsStarted, failCount,
                 authTrue, keyIssued, quotaOutcome, atSuccess, persisted,
                 issuedBody, allHtml, reloaded, nonHtmlSeen, lastAnswer,
                 otpFill, submitClicked, verifierCalled, emailEntered,
                 emailPolled, identities, authVars, stableVars, otpVars,
                 urlVars, pickVars, csvVars, mailVars, srvVars, runVars,
                 tokVars, navVars, quotaVars, syncVars, retryVars, glVars>>

\* lines 868-873: pick the email input and type the identity
FillEmail ==
    /\ pc = "fill_email"
    /\ Touch
    /\ \/ /\ emailEntered' = attempt_email      \* email_input.input(attempt_email)
          /\ pc' = "click_continue"
          /\ UNCHANGED <<exc, lastFail>>
       \/ Throw(MsgNoEmailInput) /\ UNCHANGED emailEntered
    /\ StepDone("email_entered")
    /\ UNCHANGED <<email, max_attempts, backurl, applyQuota, max_attempts_arg,
                 attempt, attempt_email, page, last_err, url, reqs, raw,
                 record, pendingReturn, result, raised, openSessions,
                 sessionsOpened, emailCalls, attemptsStarted, failCount,
                 authTrue, keyIssued, quotaOutcome, atSuccess, persisted,
                 issuedBody, allHtml, reloaded, nonHtmlSeen, lastAnswer,
                 otpFill, submitClicked, verifierCalled, emailPolled,
                 identities, authVars, stableVars, otpVars, urlVars,
                 pickVars, csvVars, mailVars, srvVars, runVars, tokVars,
                 navVars, quotaVars, syncVars, retryVars, glVars>>

\* a Continue click that is skipped when the button is not found
ClickContinueIfFound ==
    /\ pc = "click_continue"
    /\ Touch
    /\ pc' = "poll_otp"
    /\ \/ StepDone("continue")
       \/ UNCHANGED steps
    /\ UNCHANGED <<email, max_attempts, backurl, applyQuota, max_attempts_arg,
                 attempt, attempt_email, page, exc, last_err, url, reqs, raw,
                 record, pendingReturn, result, raised, openSessions,
                 sessionsOpened, emailCalls, attemptsStarted, failCount,
                 lastFail, authTrue, keyIssued, quotaOutcome, atSuccess,
                 persisted, issuedBody, allHtml, reloaded, nonHtmlSeen,
                 lastAnswer, otpFill, submitClicked, verifierCalled,
                 emailEntered, emailPolled, identities, authVars, stableVars,
                 otpVars, urlVars, pickVars, csvVars, mailVars, srvVars,
                 runVars, tokVars, navVars, quotaVars, syncVars, retryVars,
                 glVars>>

\* lines 875-890: click Continue, wait for the OTP screen
ClickContinue ==
    /\ pc = "click_continue"
    /\ Touch
    /\ \/ pc' = "poll_otp" /\ UNCHANGED <<exc, lastFail>>
       \/ Throw(MsgNoContinue)
    /\ StepDone("continue")
    /\ UNCHANGED <<email, max_attempts, backurl, applyQuota, max_attempts_arg,
                 attempt, attempt_email, page, last_err, url, reqs, raw,
                 record, pendingReturn, result, raised, openSessions,
                 sessionsOpened, emailCalls, attemptsStarted, failCount,
                 authTrue, keyIssued, quotaOutcome, atSuccess, persisted,
                 issuedBody, allHtml, reloaded, nonHtmlSeen, lastAnswer,
                 otpFill, submitClicked, verifierCalled, emailEntered,
                 emailPolled, identities, authVars, stableVars, otpVars,
                 urlVars, pickVars, csvVars, mailVars, srvVars, runVars,
                 tokVars, navVars, quotaVars, syncVars, retryVars, glVars>>

\* lines 892-900: unified_get_verification_code
PollOtp ==
    /\ pc = "poll_otp"
    /\ emailPolled' = attempt_email
    /\ \/ pc' = "fill_otp" /\ UNCHANGED <<exc, lastFail>>
       \/ Throw(MsgNoCode)
    /\ StepTried("otp_requested")
    /\ UNCHANGED <<email, max_attempts, backurl, applyQuota, max_attempts_arg,
                 attempt, attempt_email, page, last_err, url, reqs, raw,
                 record, pendingReturn, result, raised, openSessions,
                 sessionsOpened, emailCalls, attemptsStarted, failCount,
                 authTrue, keyIssued, quotaOutcome, atSuccess,
                 usedAfterClose, persisted, issuedBody, allHtml, reloaded,
                 nonHtmlSeen, lastAnswer, otpFill, submitClicked,
                 verifierCalled, emailEntered, identities, authVars,
                 stableVars, otpVars, urlVars, pickVars, csvVars, mailVars,
                 srvVars, runVars, tokVars, navVars, quotaVars, syncVars,
                 retryVars, glVars>>

\* a caller that ignores what _fill_otp reports
FillOtpIgnoreResult ==
    /\ pc = "fill_otp"
    /\ Touch
    /\ otpFill' \in {"ok", "failed"}
    /\ pc' = "submit_otp"
    /\ StepTried("otp_fill")
    /\ UNCHANGED <<email, max_attempts, backurl, applyQuota, max_attempts_arg,
                 attempt, attempt_email, page, exc, last_err, url, reqs, raw,
                 record, pendingReturn, result, raised, openSessions,
                 sessionsOpened, emailCalls, attemptsStarted, failCount,
                 lastFail, authTrue, keyIssued, quotaOutcome, atSuccess,
                 persisted, issuedBody, allHtml, reloaded, nonHtmlSeen,
                 lastAnswer, submitClicked, verifierCalled, emailEntered,
                 emailPolled, identities, authVars, stableVars, otpVars,
                 urlVars, pickVars, csvVars, mailVars, srvVars, runVars,
                 tokVars, navVars, quotaVars, syncVars, retryVars, glVars>>

\* lines 902-904: _fill_otp
FillOtp ==
    /\ pc = "fill_otp"
    /\ Touch
    /\ \/ otpFill' = "ok" /\ pc' = "submit_otp" /\ UNCHANGED <<exc, lastFail>>
       \/ otpFill' = "failed" /\ Throw(MsgOtpFill)
    /\ StepTried("otp_fill")
    /\ UNCHANGED <<email, max_attempts, backurl, applyQuota, max_attempts_arg,
                 attempt, attempt_email, page, last_err, url, reqs, raw,
                 record, pendingReturn, result, raised, openSessions,
                 sessionsOpened, emailCalls, attemptsStarted, failCount,
                 authTrue, keyIssued, quotaOutcome, atSuccess, persisted,
                 issuedBody, allHtml, reloaded, nonHtmlSeen, lastAnswer,
                 submitClicked, verifierCalled, emailEntered, emailPolled,
                 identities, authVars, stableVars, otpVars, urlVars,
                 pickVars, csvVars, mailVars, srvVars, runVars, tokVars,
                 navVars, quotaVars, syncVars, retryVars, glVars>>

\* lines 906-939: click the submit control when one is found, wait for the
\* platform URL, visit backurl (or the profile page), and visit backurl once
\* more when that landed on the login page
SubmitAndRedirect ==
    /\ pc = "submit_otp"
    /\ Touch
    /\ submitClicked' \in BOOLEAN          \* if cont2: cont2.click()
    /\ \E u1 \in {"platform", "login", "other"}, u2 \in {"platform", "login", "other"} :
          url' = IF u1 = "login" /\ backurl THEN u2 ELSE u1
    /\ pc' = "auth_gate"
    /\ steps' = steps \o (IF submitClicked' THEN <<"otp_submit">> ELSE <<>>)
                     \o <<"navigation">>
    /\ UNCHANGED <<email, max_attempts, backurl, applyQuota, max_attempts_arg,
                 attempt, attempt_email, page, exc, last_err, reqs, raw,
                 record, pendingReturn, result, raised, openSessions,
                 sessionsOpened, emailCalls, attemptsStarted, failCount,
                 lastFail, authTrue, keyIssued, quotaOutcome, atSuccess,
                 persisted, issuedBody, allHtml, reloaded, nonHtmlSeen,
                 lastAnswer, otpFill, verifierCalled, emailEntered,
                 emailPolled, identities, authVars, stableVars, otpVars,
                 urlVars, pickVars, csvVars, mailVars, srvVars, runVars,
                 tokVars, navVars, quotaVars, syncVars, retryVars, glVars>>

\* lines 941-946: when the platform URL is not reached, ask the verifier
AuthGate ==
    /\ pc = "auth_gate"
    /\ Touch
    /\ IF url = "platform"
       THEN pc' = "final_auth" /\ UNCHANGED <<exc, lastFail, authTrue, verifierCalled>>
       ELSE /\ verifierCalled' = TRUE
            /\ \E a \in AuthOutcomes :
                 \/ a = "true" /\ authTrue' = page /\ pc' = "final_auth"
                      /\ UNCHANGED <<exc, lastFail>>
                 \/ a = "false" /\ Throw(MsgSsoFailed) /\ UNCHANGED authTrue
                 \/ a = "raised" /\ Throw(MsgRunJsError) /\ UNCHANGED authTrue
    /\ steps' = IF url = "platform" THEN steps ELSE Recorded("auth_check")
    /\ UNCHANGED <<email, max_attempts, backurl, applyQuota, max_attempts_arg,
                 attempt, attempt_email, page, last_err, url, reqs, raw,
                 record, pendingReturn, result, raised, openSessions,
                 sessionsOpened, emailCalls, attemptsStarted, failCount,
                 keyIssued, quotaOutcome, atSuccess, persisted, issuedBody,
                 allHtml, reloaded, nonHtmlSeen, lastAnswer, otpFill,
                 submitClicked, emailEntered, emailPolled, identities,
                 authVars, stableVars, otpVars, urlVars, pickVars, csvVars,
                 mailVars, srvVars, runVars, tokVars, navVars, quotaVars,
                 syncVars, retryVars, glVars>>

\* a final check that trusts the platform URL
FinalAuthTrustUrl ==
    /\ pc = "final_auth"
    /\ Touch
    /\ IF url = "platform"
       THEN pc' = "open_keys" /\ UNCHANGED <<exc, lastFail, authTrue, verifierCalled>>
       ELSE /\ verifierCalled' = TRUE
            /\ \E a \in AuthOutcomes :
                 \/ a = "true" /\ authTrue' = page /\ pc' = "open_keys"
                      /\ UNCHANGED <<exc, lastFail>>
                 \/ a = "false" /\ Throw(MsgUserCurrent) /\ authTrue' = 0
                 \/ a = "raised" /\ Throw(MsgRunJsError) /\ authTrue' = 0
    /\ steps' = IF url = "platform" THEN steps ELSE Recorded("auth_check")
    /\ UNCHANGED <<email, max_attempts, backurl, applyQuota, max_attempts_arg,
                 attempt, attempt_email, page, last_err, url, reqs, raw,
                 record, pendingReturn, result, raised, openSessions,
                 sessionsOpened, emailCalls, attemptsStarted, failCount,
                 keyIssued, quotaOutcome, atSuccess, persisted, issuedBody,
                 allHtml, reloaded, nonHtmlSeen, lastAnswer, otpFill,
                 submitClicked, emailEntered, emailPolled, identities,
                 authVars, stableVars, otpVars, urlVars, pickVars, csvVars,
                 mailVars, srvVars, runVars, tokVars, navVars, quotaVars,
                 syncVars, retryVars, glVars>>

\* lines 948-950: the final check before creating the key
FinalAuth ==
    /\ pc = "final_auth"
    /\ Touch
    /\ verifierCalled' = TRUE
    /\ \E a \in AuthOutcomes :
          \/ a = "true" /\ authTrue' = page /\ pc' = "open_keys"
               /\ UNCHANGED <<exc, lastFail>>
          \/ a = "false" /\ Throw(MsgUserCurrent) /\ authTrue' = 0
          \/ a = "raised" /\ Throw(MsgRunJsError) /\ authTrue' = 0
    /\ StepTried("auth_check")
    /\ UNCHANGED <<email, max_attempts, backurl, applyQuota, max_attempts_arg,
                 attempt, attempt_email, page, last_err, url, reqs, raw,
                 record, pendingReturn, result, raised, openSessions,
                 sessionsOpened, emailCalls, attemptsStarted, failCount,
                 keyIssued, quotaOutcome, atSuccess, persisted, issuedBody,
                 allHtml, reloaded, nonHtmlSeen, lastAnswer, otpFill,
                 submitClicked, emailEntered, emailPolled, identities,
                 authVars, stableVars, otpVars, urlVars, pickVars, csvVars,
                 mailVars, srvVars, runVars, tokVars, navVars, quotaVars,
                 syncVars, retryVars, glVars>>

\* lines 952-964: open the API keys page
OpenKeys ==
    /\ pc = "open_keys"
    /\ Touch
    /\ \/ pc' = "create_key" /\ url' = "platform" /\ UNCHANGED <<exc, lastFail>>
       \/ Throw(MsgPageError) /\ UNCHANGED url
    /\ UNCHANGED <<email, max_attempts, backurl, applyQuota, max_attempts_arg,
                 attempt, attempt_email, page, last_err, reqs, raw, record,
                 pendingReturn, result, raised, openSessions, sessionsOpened,
                 emailCalls, attemptsStarted, failCount, authTrue, keyIssued,
                 quotaOutcome, atSuccess, persisted, issuedBody, allHtml,
                 reloaded, nonHtmlSeen, lastAnswer, otpFill, submitClicked,
                 verifierCalled, emailEntered, emailPolled, identities,
                 steps, authVars, stableVars, otpVars, urlVars, pickVars,
                 csvVars, mailVars, srvVars, runVars, tokVars, navVars,
                 quotaVars, syncVars, retryVars, glVars>>

\* the issuance loop without the `break` of line 1028
CreateKeyNoBreak ==
    /\ pc = "create_key"
    /\ reqs < IssuanceTries
    /\ Touch
    /\ \/ /\ \E r \in {RawNone, RawTimeout} : raw' = r
          /\ reqs' = reqs + 1
          /\ allHtml' = FALSE
          /\ reloaded' = FALSE
          /\ lastAnswer' = "noanswer"
          /\ pc' = IF reqs + 1 = IssuanceTries THEN "parse" ELSE "create_key"
          /\ UNCHANGED <<exc, lastFail, nonHtmlSeen>>
       \/ \E b \in Bodies :
            /\ reqs' = reqs + 1
            /\ IF b.html
               THEN /\ raw' = RawWrapper
                    /\ reloaded' = TRUE
                    /\ lastAnswer' = "html"
                    /\ UNCHANGED <<allHtml, nonHtmlSeen>>
               ELSE /\ raw' = RawText(b)
                    /\ reloaded' = FALSE
                    /\ allHtml' = FALSE
                    /\ nonHtmlSeen' = TRUE
                    /\ lastAnswer' = "text"
            /\ pc' = IF reqs + 1 = IssuanceTries THEN "parse" ELSE "create_key"
            /\ UNCHANGED <<exc, lastFail>>
       \/ /\ Throw(MsgRunJsError)
          /\ reqs' = reqs + 1
          /\ allHtml' = FALSE
          /\ reloaded' = FALSE
          /\ lastAnswer' = "raise"
          /\ UNCHANGED <<raw, nonHtmlSeen>>
    /\ StepTried("issuance")
    /\ UNCHANGED <<email, max_attempts, backurl, applyQuota, max_attempts_arg,
                 attempt, attempt_email, page, last_err, url, record,
                 pendingReturn, result, raised, openSessions, sessionsOpened,
                 emailCalls, attemptsStarted, failCount, authTrue, keyIssued,
                 quotaOutcome, atSuccess, persisted, issuedBody, otpFill,
                 submitClicked, verifierCalled, emailEntered, emailPolled,
                 identities, authVars, stableVars, otpVars, urlVars,
                 pickVars, csvVars, mailVars, srvVars, runVars, tokVars,
                 navVars, quotaVars, syncVars, retryVars, glVars>>

\* lines 1003-1030: one iteration of `for i in range(4)`
CreateKey ==
    /\ pc = "create_key"
    /\ reqs < IssuanceTries
    /\ Touch
    /\ \/ \* no answer (None) or the 15 s race lost ("timeout"): sleep, next i
          /\ \E r \in {RawNone, RawTimeout} : raw' = r
          /\ reqs' = reqs + 1
          /\ allHtml' = FALSE
          /\ reloaded' = FALSE
          /\ lastAnswer' = "noanswer"
          /\ pc' = IF reqs + 1 = IssuanceTries THEN "parse" ELSE "create_key"
          /\ UNCHANGED <<exc, lastFail, nonHtmlSeen>>
       \/ \E b \in Bodies :
            /\ reqs' = reqs + 1
            /\ IF b.html
               THEN /\ raw' = RawWrapper         \* page.refresh() and `continue`
                    /\ reloaded' = TRUE
                    /\ lastAnswer' = "html"
                    /\ pc' = IF reqs + 1 = IssuanceTries THEN "parse" ELSE "create_key"
                    /\ UNCHANGED <<allHtml, nonHtmlSeen>>
               ELSE /\ raw' = RawText(b)         \* raw = text; break
                    /\ reloaded' = FALSE
                    /\ allHtml' = FALSE
                    /\ nonHtmlSeen' = TRUE
                    /\ lastAnswer' = "text"
                    /\ pc' = "parse"
            /\ UNCHANGED <<exc, lastFail>>
       \/ \* page.run_js raised inside _create_key_once
          /\ Throw(MsgRunJsError)
          /\ reqs' = reqs + 1
          /\ allHtml' = FALSE
          /\ reloaded' = FALSE
          /\ lastAnswer' = "raise"
          /\ UNCHANGED <<raw, nonHtmlSeen>>
    /\ StepTried("issuance")
    /\ UNCHANGED <<email, max_attempts, backurl, applyQuota, max_attempts_arg,
                 attempt, attempt_email, page, last_err, url, record,
                 pendingReturn, result, raised, openSessions, sessionsOpened,
                 emailCalls, attemptsStarted, failCount, authTrue, keyIssued,
                 quotaOutcome, atSuccess, persisted, issuedBody, otpFill,
                 submitClicked, verifierCalled, emailEntered, emailPolled,
                 identities, authVars, stableVars, otpVars, urlVars,
                 pickVars, csvVars, mailVars, srvVars, runVars, tokVars,
                 navVars, quotaVars, syncVars, retryVars, glVars>>

\* lines 1032-1053: parse the answer and build the record
ParseKey ==
    /\ pc = "parse"
    /\ LET p == ParseIssuance(raw) IN
       IF p[1] = "ok"
       THEN /\ record' = [NoRecord EXCEPT !.email = attempt_email, !.api_key = p[2],
                                          !.attempt = attempt]
            /\ keyIssued' = TRUE
            /\ issuedBody' = raw.body
            /\ pc' = "quota"
            /\ UNCHANGED <<exc, lastFail>>
       ELSE /\ Throw(p[2])
            /\ UNCHANGED <<record, keyIssued, issuedBody>>
    /\ StepDone("record")
    /\ UNCHANGED <<email, max_attempts, backurl, applyQuota, max_attempts_arg,
                 attempt, attempt_email, page, last_err, url, reqs, raw,
                 pendingReturn, result, raised, openSessions, sessionsOpened,
                 emailCalls, attemptsStarted, failCount, authTrue,
                 quotaOutcome, atSuccess, usedAfterClose, persisted, allHtml,
                 reloaded, nonHtmlSeen, lastAnswer, otpFill, submitClicked,
                 verifierCalled, emailEntered, emailPolled, identities,
                 authVars, stableVars, otpVars, urlVars, pickVars, csvVars,
                 mailVars, srvVars, runVars, tokVars, navVars, quotaVars,
                 syncVars, retryVars, glVars>>

\* a quota step without the try / except of lines 1060-1072
QuotaUncaught ==
    /\ pc = "quota"
    /\ usedAfterClose' = (usedAfterClose \/ (applyQuota /\ page \notin openSessions))
    /\ \E q \in (IF applyQuota THEN QuotaOutcomes ELSE {QuotaSkipped}) :
          /\ quotaOutcome' = q
          /\ IF q.kind = "raise"
             THEN Throw(q.error) /\ UNCHANGED record
             ELSE /\ record' = [record EXCEPT
                                  !.quota_applied = QuotaFields(q).quota_applied,
                                  !.quota_applied_at = QuotaFields(q).quota_applied_at,
                                  !.quota_apply_error = QuotaFields(q).quota_apply_error]
                  /\ pc' = "save"
                  /\ UNCHANGED <<exc, lastFail>>
    /\ steps' = IF applyQuota THEN Append(steps, "quota") ELSE steps
    /\ UNCHANGED <<email, max_attempts, backurl, applyQuota, max_attempts_arg,
                 attempt, attempt_email, page, last_err, url, reqs, raw,
                 pendingReturn, result, raised, openSessions, sessionsOpened,
                 emailCalls, attemptsStarted, failCount, authTrue, keyIssued,
                 atSuccess, persisted, issuedBody, allHtml, reloaded,
                 nonHtmlSeen, lastAnswer, otpFill, submitClicked,
                 verifierCalled, emailEntered, emailPolled, identities,
                 authVars, stableVars, otpVars, urlVars, pickVars, csvVars,
                 mailVars, srvVars, runVars, tokVars, navVars, quotaVars,
                 syncVars, retryVars, glVars>>

\* lines 1055-1078: the optional quota workflow and the record's quota fields
Quota ==
    /\ pc = "quota"
    /\ \E q \in (IF applyQuota THEN QuotaOutcomes ELSE {QuotaSkipped}) :
          /\ quotaOutcome' = q
          /\ record' = [record EXCEPT
                          !.quota_applied = QuotaFields(q).quota_applied,
                          !.quota_applied_at = QuotaFields(q).quota_applied_at,
                          !.quota_apply_error = QuotaFields(q).quota_apply_error]
    /\ usedAfterClose' = (usedAfterClose \/ (applyQuota /\ page \notin openSessions))
    /\ pc' = "save"
    /\ steps' = IF applyQuota THEN Append(steps, "quota") ELSE steps
    /\ UNCHANGED <<email, max_attempts, backurl, applyQuota, max_attempts_arg,
                 attempt, attempt_email, page, exc, last_err, url, reqs, raw,
                 pendingReturn, result, raised, openSessions, sessionsOpened,
                 emailCalls, attemptsStarted, failCount, lastFail, authTrue,
                 keyIssued, atSuccess, persisted, issuedBody, allHtml,
                 reloaded, nonHtmlSeen, lastAnswer, otpFill, submitClicked,
                 verifierCalled, emailEntered, emailPolled, identities,
                 authVars, stableVars, otpVars, urlVars, pickVars, csvVars,
                 mailVars, srvVars, runVars, tokVars, navVars, quotaVars,
                 syncVars, retryVars, glVars>>

\* lines 1080-1156: best-effort persistence, then `return record`
SaveAndReturn ==
    /\ pc = "save"
    /\ \E saved \in BOOLEAN :
          /\ persisted' = persisted + (IF saved THEN 1 ELSE 0)
          /\ steps' = IF saved THEN Append(steps, "persistence") ELSE steps
    /\ pendingReturn' = TRUE
    /\ atSuccess' = <<attempt, attemptsStarted, emailCalls, sessionsOpened>>
    /\ pc' = "finally"
    /\ UNCHANGED <<email, max_attempts, backurl, applyQuota, max_attempts_arg,
                 attempt, attempt_email, page, exc, last_err, url, reqs, raw,
                 record, result, raised, openSessions, sessionsOpened,
                 emailCalls, attemptsStarted, failCount, lastFail, authTrue,
                 keyIssued, quotaOutcome, usedAfterClose, issuedBody,
                 allHtml, reloaded, nonHtmlSeen, lastAnswer, otpFill,
                 submitClicked, verifierCalled, emailEntered, emailPolled,
                 identities, authVars, stableVars, otpVars, urlVars,
                 pickVars, csvVars, mailVars, srvVars, runVars, tokVars,
                 navVars, quotaVars, syncVars, retryVars, glVars>>

\* the except clause keeping the first error instead of the latest one
ExceptKeepFirst ==
    /\ pc = "except"
    /\ last_err' = IF last_err = NoErr THEN exc ELSE last_err
    /\ failCount' = failCount + 1
    /\ pc' = "finally"
    /\ UNCHANGED <<email, max_attempts, backurl, applyQuota, max_attempts_arg,
                 attempt, attempt_email, page, exc, url, reqs, raw, record,
                 pendingReturn, result, raised, openSessions, sessionsOpened,
                 emailCalls, attemptsStarted, lastFail, authTrue, keyIssued,
                 quotaOutcome, atSuccess, usedAfterClose, persisted,
                 issuedBody, allHtml, reloaded, nonHtmlSeen, lastAnswer,
                 otpFill, submitClicked, verifierCalled, emailEntered,
                 emailPolled, identities, steps, authVars, stableVars,
                 otpVars, urlVars, pickVars, csvVars, mailVars, srvVars,
                 runVars, tokVars, navVars, quotaVars, syncVars, retryVars,
                 glVars>>

\* lines 1157-1159: except Exception as e: last_err = e
Except ==
    /\ pc = "except"
    /\ last_err' = exc
    /\ failCount' = failCount + 1
    /\ pc' = "finally"
    /\ UNCHANGED <<email, max_attempts, backurl, applyQuota, max_attempts_arg,
                 attempt, attempt_email, page, exc, url, reqs, raw, record,
                 pendingReturn, result, raised, openSessions, sessionsOpened,
                 emailCalls, attemptsStarted, lastFail, authTrue, keyIssued,
                 quotaOutcome, atSuccess, usedAfterClose, persisted,
                 issuedBody, allHtml, reloaded, nonHtmlSeen, lastAnswer,
                 otpFill, submitClicked, verifierCalled, emailEntered,
                 emailPolled, identities, steps, authVars, stableVars,
                 otpVars, urlVars, pickVars, csvVars, mailVars, srvVars,
                 runVars, tokVars, navVars, quotaVars, syncVars, retryVars,
                 glVars>>

\* a release that runs on the error path only
FinallyOnlyOnError ==
    /\ pc = "finally"
    /\ openSessions' = IF page # 0 /\ ~pendingReturn THEN openSessions \ {page}
                       ELSE openSessions
    /\ pc' = "after_finally"
    /\ steps' = IF page # 0 /\ ~pendingReturn THEN Append(steps, "session_closed") ELSE steps
    /\ UNCHANGED <<email, max_attempts, backurl, applyQuota, max_attempts_arg,
                 attempt, attempt_email, page, exc, last_err, url, reqs, raw,
                 record, pendingReturn, result, raised, sessionsOpened,
                 emailCalls, attemptsStarted, failCount, lastFail, authTrue,
                 keyIssued, quotaOutcome, atSuccess, usedAfterClose,
                 persisted, issuedBody, allHtml, reloaded, nonHtmlSeen,
                 lastAnswer, otpFill, submitClicked, verifierCalled,
                 emailEntered, emailPolled, identities, authVars, stableVars,
                 otpVars, urlVars, pickVars, csvVars, mailVars, srvVars,
                 runVars, tokVars, navVars, quotaVars, syncVars, retryVars,
                 glVars>>

\* lines 1160-1165: finally: page.quit() when a page was opened
Finally ==
    /\ pc = "finally"
    /\ openSessions' = IF page # 0 THEN openSessions \ {page} ELSE openSessions
    /\ pc' = "after_finally"
    /\ steps' = IF page # 0 THEN Append(steps, "session_closed") ELSE steps
    /\ UNCHANGED <<email, max_attempts, backurl, applyQuota, max_attempts_arg,
                 attempt, attempt_email, page, exc, last_err, url, reqs, raw,
                 record, pendingReturn, result, raised, sessionsOpened,
                 emailCalls, attemptsStarted, failCount, lastFail, authTrue,
                 keyIssued, quotaOutcome, atSuccess, usedAfterClose,
                 persisted, issuedBody, allHtml, reloaded, nonHtmlSeen,
                 lastAnswer, otpFill, submitClicked, verifierCalled,
                 emailEntered, emailPolled, identities, authVars, stableVars,
                 otpVars, urlVars, pickVars, csvVars, mailVars, srvVars,
                 runVars, tokVars, navVars, quotaVars, syncVars, retryVars,
                 glVars>>

\* the loop without `if email: break`
AfterFinallyNoBreak ==
    /\ pc = "after_finally"
    /\ IF pendingReturn
       THEN /\ result' = record
            /\ pc' = "returned"
            /\ UNCHANGED <<attempt, raised>>
       ELSE IF attempt + 1 < max_attempts
       THEN /\ attempt' = attempt + 1
            /\ pc' = "loop"
            /\ UNCHANGED <<result, raised>>
       ELSE /\ raised' = IF last_err # NoErr THEN Err(last_err.msg, last_err.attempt)
                                              ELSE Err(MsgFlowFailed, -1)
            /\ pc' = "raised"
            /\ UNCHANGED <<result, attempt>>
    /\ UNCHANGED <<email, max_attempts, backurl, applyQuota, max_attempts_arg,
                 attempt_email, page, exc, last_err, url, reqs, raw, record,
                 pendingReturn, openSessions, sessionsOpened, emailCalls,
                 attemptsStarted, failCount, lastFail, authTrue, keyIssued,
                 quotaOutcome, atSuccess, usedAfterClose, persisted,
                 issuedBody, allHtml, reloaded, nonHtmlSeen, lastAnswer,
                 otpFill, submitClicked, verifierCalled, emailEntered,
                 emailPolled, identities, steps, authVars, stableVars,
                 otpVars, urlVars, pickVars, csvVars, mailVars, srvVars,
                 runVars, tokVars, navVars, quotaVars, syncVars, retryVars,
                 glVars>>

\* a loop that keeps the record and goes on to the remaining attempts
AfterFinallyContinue ==
    /\ pc = "after_finally"
    /\ IF email = NoEmail /\ attempt + 1 < max_attempts
       THEN /\ attempt' = attempt + 1
            /\ pc' = "loop"
            /\ result' = IF pendingReturn THEN record ELSE result
            /\ UNCHANGED raised
       ELSE IF pendingReturn
       THEN /\ result' = record
            /\ pc' = "returned"
            /\ UNCHANGED <<attempt, raised>>
       ELSE /\ raised' = IF last_err # NoErr THEN Err(last_err.msg, last_err.attempt)
                                              ELSE Err(MsgFlowFailed, -1)
            /\ pc' = "raised"
            /\ UNCHANGED <<result, attempt>>
    /\ UNCHANGED <<email, max_attempts, backurl, applyQuota, max_attempts_arg,
                 attempt_email, page, exc, last_err, url, reqs, raw, record,
                 pendingReturn, openSessions, sessionsOpened, emailCalls,
                 attemptsStarted, failCount, lastFail, authTrue, keyIssued,
                 quotaOutcome, atSuccess, usedAfterClose, persisted,
                 issuedBody, allHtml, reloaded, nonHtmlSeen, lastAnswer,
                 otpFill, submitClicked, verifierCalled, emailEntered,
                 emailPolled, identities, steps, authVars, stableVars,
                 otpVars, urlVars, pickVars, csvVars, mailVars, srvVars,
                 runVars, tokVars, navVars, quotaVars, syncVars, retryVars,
                 glVars>>

\* lines 1156, 1167-1171: after the finally block the pending return completes;
\* otherwise a fixed email ends the loop, the loop goes on while attempts
\* remain, and line 1171 raises
AfterFinally ==
    /\ pc = "after_finally"
    /\ IF pendingReturn
       THEN /\ result' = record
            /\ pc' = "returned"
            /\ UNCHANGED <<attempt, raised>>
       ELSE IF email = NoEmail /\ attempt + 1 < max_attempts
       THEN /\ attempt' = attempt + 1
            /\ pc' = "loop"
            /\ UNCHANGED <<result, raised>>
       ELSE /\ raised' = IF last_err # NoErr THEN Err(last_err.msg, last_err.attempt)
                                              ELSE Err(MsgFlowFailed, -1)
            /\ pc' = "raised"
            /\ UNCHANGED <<result, attempt>>
    /\ UNCHANGED <<email, max_attempts, backurl, applyQuota, max_attempts_arg,
                 attempt_email, page, exc, last_err, url, reqs, raw, record,
                 pendingReturn, openSessions, sessionsOpened, emailCalls,
                 attemptsStarted, failCount, lastFail, authTrue, keyIssued,
                 quotaOutcome, atSuccess, usedAfterClose, persisted,
                 issuedBody, allHtml, reloaded, nonHtmlSeen, lastAnswer,
                 otpFill, submitClicked, verifierCalled, emailEntered,
                 emailPolled, identities, steps, authVars, stableVars,
                 otpVars, urlVars, pickVars, csvVars, mailVars, srvVars,
                 runVars, tokVars, navVars, quotaVars, syncVars, retryVars,
                 glVars>>

Next ==
    \/ StartAttempt
    \/ InitBrowser
    \/ OpenLogin
    \/ EmailMethod
    \/ FillEmail
    \/ ClickContinue
    \/ PollOtp
    \/ FillOtp
    \/ SubmitAndRedirect
    \/ AuthGate
    \/ FinalAuth
    \/ OpenKeys
    \/ CreateKey
    \/ ParseKey
    \/ Quota
    \/ SaveAndReturn
    \/ Except
    \/ Finally
    \/ AfterFinally

Spec == Init /\ [][Next]_vars


(***************************************************************************)
(* The authentication verifier taken alone: one call of                    *)
(* _is_longcat_authenticated in an arbitrary environment                   *)
(***************************************************************************)
OrchIdle ==
    /\ email = NoEmail /\ max_attempts_arg = 1 /\ max_attempts = 1
    /\ backurl = FALSE /\ applyQuota = FALSE
    /\ pc = "idle" /\ attempt = 0 /\ attempt_email = NoEmail /\ page = 0
    /\ exc = NoErr /\ last_err = NoErr /\ url = "passport" /\ reqs = 0
    /\ raw = RawNone /\ record = NoRecord /\ pendingReturn = FALSE
    /\ result = NoRecord /\ raised = NoErr /\ openSessions = {}
    /\ sessionsOpened = 0 /\ emailCalls = 0 /\ attemptsStarted = 0
    /\ failCount = 0 /\ lastFail = NoErr /\ authTrue = 0 /\ keyIssued = FALSE
    /\ quotaOutcome = QuotaNotRun /\ atSuccess = <<-1, 0, 0, 0>>
    /\ usedAfterClose = FALSE /\ persisted = 0 /\ issuedBody = EmptyBody
    /\ allHtml = TRUE /\ reloaded = FALSE /\ nonHtmlSeen = FALSE /\ lastAnswer = "none"
    /\ otpFill = "none" /\ submitClicked = FALSE /\ verifierCalled = FALSE
    /\ emailEntered = NoEmail /\ emailPolled = NoEmail /\ identities = <<>> /\ steps = <<>>

InitAuth ==
    /\ vIn \in AuthEnvs
    /\ vOut = "pending"
    /\ OrchIdle
    /\ StableIdle
    /\ OtpIdle
    /\ UrlIdle
    /\ PickIdle
    /\ CsvIdle
    /\ MailIdle
    /\ SrvIdle
    /\ RunIdle
    /\ TokIdle
    /\ NavIdle
    /\ QuotaIdle
    /\ SyncIdle
    /\ RetryIdle
    /\ GlIdle

\* lines 776-783: the call
VerifyAuth ==
    /\ vOut = "pending"
    /\ vOut' = IsLongcatAuthenticated(vIn)
    /\ UNCHANGED vIn
    /\ UNCHANGED <<orchVars, stableVars, otpVars, urlVars, pickVars, csvVars, mailVars,
                 srvVars, runVars, tokVars, navVars, quotaVars, syncVars,
                 retryVars, glVars>>

NextAuth == VerifyAuth

SpecAuth == InitAuth /\ [][NextAuth]_vars

(***************************************************************************)
(* Properties of the attempt retry loop                                    *)
(***************************************************************************)

\* C1: without a fixed email and with max_attempts = N >= 1, when every
\* attempt fails in the credential-creation flow (each identity having been
\* issued), exactly N attempts were run and the error raised is the one the
\* N-th attempt failed with.
C1_LastErrorOfLastAttempt ==
    (pc = "raised" /\ email = NoEmail /\ attempt_email # NoEmail /\ max_attempts_arg >= 1)
        => /\ attemptsStarted = max_attempts_arg
           /\ failCount = max_attempts_arg
           /\ raised.attempt = max_attempts_arg - 1
           /\ raised.msg = lastFail.msg
           /\ lastFail.attempt = max_attempts_arg - 1

C1_Witness ==
    /\ pc = "raised" /\ email = NoEmail /\ attempt_email # NoEmail
    /\ max_attempts_arg = 3 /\ attemptsStarted = 3
    /\ raised = Err(MsgKeyMissing, 2)

\* C2: with a fixed email a failing first attempt is terminal whatever
\* max_attempts is: no second attempt, no second session, and the error of
\* that attempt is raised.
C2_FixedEmailSingleAttempt ==
    email # NoEmail
        => /\ attemptsStarted <= 1
           /\ sessionsOpened <= 1
           /\ attempt = 0
           /\ (failCount >= 1 /\ pc \notin {"finally", "after_finally"} => pc = "raised")
           /\ (pc = "raised" => failCount = 1 /\ raised = lastFail /\ raised.attempt = 0)

C2_Witness ==
    /\ email = FixedEmail /\ max_attempts = 3 /\ pc = "raised"
    /\ raised = Err(MsgOtpFill, 0) /\ sessionsOpened = 1

\* C3: the orchestrator raises only after every attempt failed: without a
\* fixed email, whatever makes an attempt fail (the email collaborator not
\* issuing an identity included), all max_attempts attempts are run before an
\* error is raised.
C3_AllAttemptsRunBeforeRaise ==
    (pc = "raised" /\ email = NoEmail) => attemptsStarted = max_attempts

\* C4: the record returned is that of the first successful attempt; after the
\* success no attempt is started, no identity requested, no session opened
\* and no error raised.
C4_FirstSuccessReturned ==
    atSuccess[1] # -1
        => /\ attempt = atSuccess[1]
           /\ attemptsStarted = atSuccess[2]
           /\ emailCalls = atSuccess[3]
           /\ sessionsOpened = atSuccess[4]
           /\ failCount = atSuccess[1]
           /\ raised = NoErr
           /\ pc \in {"finally", "after_finally", "returned"}
           /\ (pc = "returned" => /\ result = record
                                  /\ result.attempt = atSuccess[1]
                                  /\ result.email = attempt_email
                                  /\ result.api_key # "")

C4_Witness ==
    /\ pc = "returned" /\ max_attempts = 3 /\ atSuccess[1] = 1
    /\ attemptsStarted = 2 /\ emailCalls = 2 /\ failCount = 1

\* C5: every session an attempt opened is closed when the attempt ends
\* (success, error, quota exception), before the next attempt opens one and
\* before the orchestrator returns or raises: at most one session is open,
\* and no session is interacted with while it is not open.
C5_SessionReleased ==
    /\ Cardinality(openSessions) <= 1
    /\ (openSessions # {} => openSessions = {page})
    /\ (pc \in {"loop", "init_browser", "after_finally", "returned", "raised"}
           => openSessions = {})
    /\ ~usedAfterClose

C5_Witness ==
    /\ pc = "returned" /\ sessionsOpened = 2 /\ openSessions = {}
    /\ quotaOutcome = QuotaRaise

\* C6: in every attempt an issuance request is sent, and a record built, only
\* after the verifier returned true in the session of that attempt; having
\* reached the platform URL does not stand in for it.
C6_IssuanceOnlyAfterVerifier ==
    (reqs > 0 \/ keyIssued \/ record # NoRecord
        \/ pc \in {"open_keys", "create_key", "parse", "quota", "save"})
        => (page # 0 /\ authTrue = page)

C6_Witness ==
    /\ keyIssued /\ page = 2 /\ authTrue = 2 /\ reqs = 3 /\ pc = "quota"

\* C9: once the api key is issued, no outcome of the quota workflow (a
\* returned failure, an exception) fails the attempt or starts another one;
\* the record is returned with quota_applied false and quota_apply_error the
\* reason; with the workflow disabled quota_applied is unset and the error
\* empty.
C9_QuotaNeverFailsAttempt ==
    /\ (keyIssued => /\ pc \in {"quota", "save", "finally", "after_finally", "returned"}
                     /\ exc = NoErr
                     /\ raised = NoErr
                     /\ attempt = record.attempt
                     /\ (pc \in {"finally", "after_finally"} => pendingReturn))
    /\ (pc = "returned"
          => /\ (~applyQuota => /\ quotaOutcome = QuotaSkipped
                                /\ result.quota_applied = "None"
                                /\ result.quota_apply_error = "")
             /\ (applyQuota => quotaOutcome \in QuotaOutcomes)
             /\ (applyQuota /\ ~quotaOutcome.ok
                    => /\ result.quota_applied = "False"
                       /\ result.quota_apply_error = quotaOutcome.error)
             /\ (applyQuota /\ ~quotaOutcome.ok /\ quotaOutcome.kind = "return"
                    => result.quota_apply_error # ""))

C9_Witness ==
    /\ pc = "returned" /\ applyQuota /\ quotaOutcome = QuotaRaise
    /\ result.quota_applied = "False" /\ result.quota_apply_error = MsgQuotaException
    /\ failCount = 0

\* a JSON envelope with code 0 and data a non-empty string
StrictSuccessEnvelope(b) ==
    /\ b.kind = "obj"
    /\ b.code \in { <<"int", "0">>, <<"float", "0.0">> }
    /\ b.data[1] = "str" /\ b.data[2] # ""

\* C10: an attempt yields a record, with api_key the envelope's data, exactly
\* when the issuance body is a JSON envelope with code 0 and data a non-empty
\* string; any other body (non-zero code, missing or non-string data, not
\* JSON) fails the attempt and nothing is recorded or persisted.
C10_RecordIffSuccessEnvelope ==
    /\ (keyIssued => /\ StrictSuccessEnvelope(issuedBody)
                     /\ record.api_key = issuedBody.data[2])
    /\ (pc = "except" /\ raw.k = "text" /\ exc.msg # MsgRunJsError
           => ~StrictSuccessEnvelope(raw.body))
    /\ (~keyIssued /\ pc # "returned" => record = NoRecord)

(***************************************************************************)
(* Properties of the authentication verifier                               *)
(***************************************************************************)

\* the failures of the current-user check C7 names
CurrentUserCheckFailed(env) ==
    \/ env.js = "raise"                                  \* the script call fails / times out
    \/ env.js = "text" /\ env.body.kind = "empty"        \* client-side timeout: ''
    \/ env.js = "text" /\ env.body.kind = "notjson"      \* body is not JSON
    \/ env.js = "text" /\ env.body.kind = "obj" /\ env.body.data = JNull

\* C7: the verifier returns false and never raises for every failure of the
\* current-user check: client-side timeout, the in-page script call failing
\* or timing out, a body that is not JSON, an envelope with a null payload.
C7_VerifierFalseNeverRaises ==
    (vOut # "pending" /\ CurrentUserCheckFailed(vIn)) => vOut = "false"

\* a JSON object whose code is 0 and whose data is non-empty
WellFormedSuccess(b) ==
    /\ b.kind = "obj"
    /\ b.code \in { <<"int", "0">>, <<"float", "0.0">> }
    /\ PyTruthy(b.data)

\* C8: the verifier returns true iff the response parses as a JSON object
\* whose code is 0 and whose data is non-empty; false for every other
\* response.
C8_TrueIffSuccessEnvelope ==
    (vOut # "pending" /\ vIn.js = "text")
        => /\ (vOut = "true" <=> WellFormedSuccess(vIn.body))
           /\ (vOut # "true" => vOut = "false")

(***************************************************************************)
(* Properties of the issuance loop, the OTP step and the attempt identity  *)
(***************************************************************************)
\* the part of C11 that holds in every state
IssuanceLoopInv ==
    /\ reqs <= IssuanceTries
    /\ (pc = "create_key" => reqs < IssuanceTries)
    /\ (allHtml /\ reqs = IssuanceTries) =>
          /\ ~keyIssued /\ ~pendingReturn
          /\ pc \in {"parse", "except", "finally", "after_finally", "loop", "raised"}
          /\ (pc \in {"finally", "after_finally"} => last_err = Err(MsgCreateFailed, attempt))

\* the part of C11 that speaks of one step
IssuanceLoopStep ==
    /\ (reqs' = reqs + 1 /\ lastAnswer' = "html") =>
          /\ reloaded'
          /\ (reqs' < IssuanceTries => pc' = "create_key")
    /\ (pc = "parse" /\ allHtml /\ reqs = IssuanceTries) => pc' = "except"
    /\ (reqs' = reqs + 1) => ~nonHtmlSeen

\* C11: within one attempt at most 4 issuance requests are sent; an HTML
\* response is followed by a page reload and, while fewer than 4 requests
\* have been sent, by another request; after 4 HTML responses the attempt
\* fails; after the first response that is not HTML no further request is sent
C11_IssuanceRetriesBounded == [] IssuanceLoopInv /\ [][IssuanceLoopStep]_vars

C11_Witness ==
    /\ reqs = IssuanceTries /\ allHtml /\ reloaded
    /\ pc = "after_finally" /\ last_err = Err(MsgCreateFailed, attempt)

\* C12: when _fill_otp reports failure the attempt fails with the explicit
\* OTP error, and in that attempt the submit control is never clicked, the
\* verifier is never called and no issuance request is sent
C12_OtpFailureStopsAttempt ==
    otpFill = "failed" =>
        /\ pc \in {"except", "finally", "after_finally", "loop", "raised"}
        /\ lastFail.msg = MsgOtpFill
        /\ (pc = "except" => exc = Err(MsgOtpFill, attempt))
        /\ (pc \in {"finally", "after_finally"} => last_err = Err(MsgOtpFill, attempt))
        /\ ~pendingReturn /\ ~keyIssued
        /\ ~submitClicked
        /\ ~verifierCalled
        /\ reqs = 0

C12_Witness == otpFill = "failed" /\ pc = "after_finally" /\ emailPolled = attempt_email

\* C20: without a fixed email every attempt begun made exactly one call of the
\* email collaborator and runs under the identity that call returned; the
\* identity typed into the form and the identity polled are that identity; no
\* two attempts share an identity
C20_FreshIdentityPerAttempt ==
    email = NoEmail =>
        /\ emailCalls = attemptsStarted
        /\ Len(identities) = attemptsStarted
        /\ \A k \in 1 .. Len(identities) :
              \/ identities[k] = IssuedEmail(k)
              \/ identities[k] = NoEmail /\ k = Len(identities) /\ pc = "raised"
        /\ (attemptsStarted > 0 => attempt_email = identities[Len(identities)])
        /\ emailEntered \in {NoEmail, attempt_email}
        /\ emailPolled \in {NoEmail, attempt_email}
        /\ \A i, j \in 1 .. Len(identities) : i # j => identities[i] # identities[j]

C20_Witness ==
    /\ email = NoEmail /\ attemptsStarted = 2 /\ failCount = 1
    /\ emailEntered = IssuedEmail(2) /\ emailPolled = IssuedEmail(2)

\* ---------------------------------------------------------------------
\* Failure messages of the login flow (src/longcat_automation.py 859-1045)

\* the messages of the raise statements of the login flow's transitions
FatalTransitionMsgs ==
    {MsgNoEmailMethod, MsgNoEmailInput, MsgNoContinue, MsgNoCode, MsgOtpFill,
     MsgSsoFailed, MsgUserCurrent, MsgRequestFailed, MsgNotJson,
     MsgCreateFailed, MsgKeyMissing}

\* lines 944-946: the one message into which page.url is interpolated
MsgsWithLocation == {MsgSsoFailed}

CarriesLocation(m) == m \in MsgsWithLocation

\* C25: the error raised for a fatal transition of the login flow carries
\* the last known page location
C25_FatalErrorsCarryLocation ==
    (pc = "raised" /\ raised.msg \in FatalTransitionMsgs)
        => CarriesLocation(raised.msg)

\* C26: a zero-candidate result of the email input location is not a fatal
\* error of the attempt
C26_NoEmailInputIsRetried ==
    failCount > 0 => lastFail.msg # MsgNoEmailInput

\* ---------------------------------------------------------------------
\* The order of the steps of one attempt (lines 849-1165)

\* the steps of one attempt in the order of the code
StepOrder ==
    <<"session_opened", "login_page", "email_method", "email_entered",
      "continue", "otp_requested", "otp_fill", "otp_submit", "navigation",
      "auth_check", "issuance", "record", "quota", "persistence",
      "session_closed">>

StepRank(s) == CHOOSE i \in 1 .. Len(StepOrder) : StepOrder[i] = s

\* line 913 `if cont2:`, line 1059 `if bool(LONGCAT_APPLY_QUOTA):`,
\* lines 1081 / 1094 `if save_path:` / `if csv_path:` with a caught failure
OptionalSteps == {"otp_submit", "quota", "persistence"}

TookPlaceBefore(s, i) == \E j \in 1 .. (i - 1) : steps[j] = s

\* C27 as stated: the steps take place in order and each one only after all
\* the steps before it in the list took place in the same attempt
C27_EveryStepAfterAllEarlier ==
    \A i \in 1 .. Len(steps) :
        \A r \in 1 .. (StepRank(steps[i]) - 1) : TookPlaceBefore(StepOrder[r], i)

\* C27: the steps of an attempt take place in the order of the list; a step
\* other than the closing of the session takes place only after every
\* earlier step that is not optional; the session is closed only after it
\* was opened, and nothing follows the closing
C27_StepsInOrder ==
    /\ \A i, j \in 1 .. Len(steps) : i < j => StepRank(steps[i]) < StepRank(steps[j])
    /\ \A i \in 1 .. Len(steps) :
          IF steps[i] = "session_closed"
          THEN TookPlaceBefore("session_opened", i)
          ELSE \A r \in 1 .. (StepRank(steps[i]) - 1) :
                  StepOrder[r] \notin OptionalSteps
                      => TookPlaceBefore(StepOrder[r], i)

C27_Witness ==
    /\ pc = "returned"
    /\ steps = StepOrder

\* an attempt that failed half-way and closed its session
C27_WitnessFailed ==
    /\ pc = "raised"
    /\ Len(steps) > 1
    /\ steps[Len(steps)] = "session_closed"
    /\ ~TookPlaceBefore("issuance", Len(steps))
(***************************************************************************)
(* wait_for_page_stable (src/browser_utils.py) taken alone: one call, poll *)
(* by poll, and what the calling line does with the result                 *)
(***************************************************************************)
MaxPolls == 5         \* polls the clock leaves room for before the timeout
StableNeeded == 3     \* `if stable_count >= 3`

HtmlSizes == {0, 1, 2}    \* len(page.html or ""): 0 is an empty / None html

\* what one poll can read: run_js or page.html raised, a readiness other than
\* "complete", or "complete" and a content size
PollOutcomes ==
    {[kind |-> "error", size |-> 0], [kind |-> "not_complete", size |-> 0]}
        \cup {[kind |-> "ok", size |-> s] : s \in HtmlSizes}

\* the calls of wait_for_page_stable in create_longcat_account_and_api_key
CallSites == {855, 866, 890, 925, 936, 960, 1023}
\* the calls that sit inside `try: ... except Exception: pass`
GuardedCallSites == {925, 936, 1023}

InitStable ==
    /\ last_html_len = 0
    /\ stable_count = 0
    /\ polls = <<>>
    /\ waitResult = "running"
    /\ caller \in CallSites
    /\ callerOutcome = "waiting"
    /\ OrchIdle
    /\ OrchIdleAuth
    /\ OtpIdle
    /\ UrlIdle
    /\ PickIdle
    /\ CsvIdle
    /\ MailIdle
    /\ SrvIdle
    /\ RunIdle
    /\ TokIdle
    /\ NavIdle
    /\ QuotaIdle
    /\ SyncIdle
    /\ RetryIdle
    /\ GlIdle

\* a poll whose read error is not caught
WaitPollUncaught ==
    /\ waitResult = "running"
    /\ Len(polls) < MaxPolls
    /\ \E o \in PollOutcomes :
          /\ polls' = Append(polls, o)
          /\ IF o.kind = "error"
             THEN waitResult' = "raised" /\ UNCHANGED <<stable_count, last_html_len>>
             ELSE IF o.kind = "not_complete"
             THEN stable_count' = 0 /\ UNCHANGED <<last_html_len, waitResult>>
             ELSE IF o.size = last_html_len
             THEN /\ stable_count' = stable_count + 1
                  /\ waitResult' = IF stable_count + 1 >= StableNeeded THEN "true" ELSE waitResult
                  /\ UNCHANGED last_html_len
             ELSE /\ stable_count' = 0
                  /\ last_html_len' = o.size
                  /\ UNCHANGED waitResult
    /\ UNCHANGED <<caller, callerOutcome>>
    /\ UNCHANGED <<orchVars, authVars, otpVars, urlVars, pickVars, csvVars, mailVars, srvVars,
                 runVars, tokVars, navVars, quotaVars, syncVars, retryVars,
                 glVars>>

\* lines 93-111: one iteration of the while loop
WaitPoll ==
    /\ waitResult = "running"
    /\ Len(polls) < MaxPolls
    /\ \E o \in PollOutcomes :
          /\ polls' = Append(polls, o)
          /\ IF o.kind = "error"
             THEN \* except Exception: time.sleep(check_interval)
                  UNCHANGED <<stable_count, last_html_len, waitResult>>
             ELSE IF o.kind = "not_complete"
             THEN stable_count' = 0 /\ UNCHANGED <<last_html_len, waitResult>>
             ELSE IF o.size = last_html_len
             THEN /\ stable_count' = stable_count + 1
                  /\ waitResult' = IF stable_count + 1 >= StableNeeded THEN "true" ELSE waitResult
                  /\ UNCHANGED last_html_len
             ELSE /\ stable_count' = 0
                  /\ last_html_len' = o.size
                  /\ UNCHANGED waitResult
    /\ UNCHANGED <<caller, callerOutcome>>
    /\ UNCHANGED <<orchVars, authVars, otpVars, urlVars, pickVars, csvVars, mailVars, srvVars,
                 runVars, tokVars, navVars, quotaVars, syncVars, retryVars,
                 glVars>>

\* lines 93, 112: the loop condition fails, return False. Every caller passes a
\* timeout of 5 s or more, so the first test of the condition succeeds.
WaitTimeout ==
    /\ waitResult = "running"
    /\ Len(polls) >= 1
    /\ waitResult' = "false"
    /\ UNCHANGED <<last_html_len, stable_count, polls, caller, callerOutcome>>
    /\ UNCHANGED <<orchVars, authVars, otpVars, urlVars, pickVars, csvVars, mailVars, srvVars,
                 runVars, tokVars, navVars, quotaVars, syncVars, retryVars,
                 glVars>>

\* the calling line: the result is discarded; an exception would end the
\* attempt unless the call is one of the guarded ones
CallerResume ==
    /\ waitResult \in {"true", "false", "raised"}
    /\ callerOutcome = "waiting"
    /\ callerOutcome' = IF waitResult = "raised" /\ caller \notin GuardedCallSites
                        THEN "fails" ELSE "proceeds"
    /\ UNCHANGED <<last_html_len, stable_count, polls, waitResult, caller>>
    /\ UNCHANGED <<orchVars, authVars, otpVars, urlVars, pickVars, csvVars, mailVars, srvVars,
                 runVars, tokVars, navVars, quotaVars, syncVars, retryVars,
                 glVars>>

NextStable ==
    \/ WaitPoll
    \/ WaitTimeout
    \/ CallerResume

SpecStable == InitStable /\ [][NextStable]_vars

\* the three most recent polls
LastThreePolls == SubSeq(polls, Len(polls) - 2, Len(polls))

\* C14: wait_for_page_stable returns true only when the three most recent
\* polls each read readiness "complete" and the same content size; a poll that
\* hit a read error or a readiness other than "complete" is not among them
C14_TrueOnlyAfterThreeStablePolls ==
    waitResult = "true" =>
        /\ Len(polls) >= StableNeeded
        /\ \A i \in 1 .. StableNeeded :
              /\ LastThreePolls[i].kind = "ok"
              /\ LastThreePolls[i].size = LastThreePolls[1].size

\* C15: wait_for_page_stable never raises, whatever the polls read; it returns
\* false exactly when the timeout elapses before three stable polls; the
\* calling line goes on to its next step whatever the result
C15_WaitNeverRaisesOrFails ==
    /\ waitResult # "raised"
    /\ (waitResult = "false" => stable_count < StableNeeded)
    /\ (waitResult = "true" => stable_count >= StableNeeded)
    /\ callerOutcome \in {"waiting", "proceeds"}
    /\ (callerOutcome = "proceeds" => waitResult \in {"true", "false"})

C15_Witness ==
    /\ waitResult = "false" /\ callerOutcome = "proceeds"
    /\ Len(polls) = 3 /\ \A i \in 1 .. 3 : polls[i].kind = "error"

(***************************************************************************)
(* _fill_otp (src/longcat_automation.py) taken alone: one call. The page   *)
(* decides how many boxes each lookup finds and whether the submit control *)
(* is enabled at each check.                                               *)
(***************************************************************************)
FillRounds == 6           \* `for _attempt in range(6)`
CodeLengths == {0, 4, 6}  \* digits in the code handed in: none, or an OTP of 4 or 6 digits

\* one call of _continue_enabled (lines 640-644): what the submit control
\* found by _find_otp_submit_button reports ("none" when no control is found),
\* and what _otp_submit_button_enabled_via_js answers ("skipped" when line 642
\* has returned already)
CheckOutcomes ==
    {<<"enabled", "skipped">>}
        \cup {<<b, j>> : b \in {"none", "disabled"}, j \in {"true", "false"}}
Unchecked == <<"unchecked", "skipped">>

\* a check that needs both answers
ContinueEnabledBoth(c) == c[1] = "enabled" /\ c[2] = "true"

\* lines 640-644: if btn and _is_element_enabled(btn): return True;
\* return _otp_submit_button_enabled_via_js(page)
continue_enabled(c) == IF c[1] = "enabled" THEN TRUE ELSE c[2] = "true"

\* what the writes made so far amount to, after k of n digits were written
Written(before, k, n) ==
    IF k = 0 THEN before ELSE IF k < n /\ before # "full" THEN "partial" ELSE "full"

InitOtp ==
    /\ digits \in CodeLengths
    /\ fill_attempt = 0
    /\ otp_inputs = 0
    /\ otpPc = "entry"
    /\ fillResult = "running"
    /\ enoughSeen = FALSE
    /\ boxWrites = "none"
    /\ typedIntoFocus = FALSE
    /\ lastCheck = Unchecked
    /\ OrchIdle
    /\ OrchIdleAuth
    /\ StableIdle
    /\ UrlIdle
    /\ PickIdle
    /\ CsvIdle
    /\ MailIdle
    /\ SrvIdle
    /\ RunIdle
    /\ TokIdle
    /\ NavIdle
    /\ QuotaIdle
    /\ SyncIdle
    /\ RetryIdle
    /\ GlIdle

\* lines 631-633: if not digits: return False
FillEntry ==
    /\ otpPc = "entry"
    /\ IF digits = 0
       THEN otpPc' = "done" /\ fillResult' = "false"
       ELSE otpPc' = "locate" /\ UNCHANGED fillResult
    /\ UNCHANGED <<digits, fill_attempt, otp_inputs, enoughSeen, boxWrites, typedIntoFocus,
                   lastCheck>>
    /\ UNCHANGED <<orchVars, authVars, stableVars, urlVars, pickVars, csvVars, mailVars,
                 srvVars, runVars, tokVars, navVars, quotaVars, syncVars,
                 retryVars, glVars>>

\* lines 650-651 and 730-731: the loop head; otp_inputs = _pick_otp_inputs(...)
\* returns at most len(digits) boxes; after 6 rounds return False
LocateBoxes ==
    /\ otpPc = "locate"
    /\ IF fill_attempt = FillRounds
       THEN /\ otpPc' = "done"
            /\ fillResult' = "false"
            /\ UNCHANGED <<otp_inputs, enoughSeen>>
       ELSE /\ \E n \in 0 .. digits :
                 /\ otp_inputs' = n
                 /\ enoughSeen' = (enoughSeen \/ n >= digits)
            /\ otpPc' = "js_set"
            /\ UNCHANGED fillResult
    /\ UNCHANGED <<digits, fill_attempt, boxWrites, typedIntoFocus, lastCheck>>
    /\ UNCHANGED <<orchVars, authVars, stableVars, urlVars, pickVars, csvVars, mailVars,
                 srvVars, runVars, tokVars, navVars, quotaVars, syncVars,
                 retryVars, glVars>>

\* lines 653-657: _set_otp_via_js looks the boxes up itself and writes every
\* digit, or nothing when it finds fewer boxes than digits (line 400); then
\* the first check of the submit control
JsSetAndCheck ==
    /\ otpPc = "js_set"
    /\ \E n \in 0 .. digits :
          /\ enoughSeen' = (enoughSeen \/ n >= digits)
          /\ boxWrites' = IF n >= digits THEN "full" ELSE boxWrites
    /\ \E c \in CheckOutcomes :
          /\ lastCheck' = c
          /\ IF continue_enabled(c)
             THEN otpPc' = "done" /\ fillResult' = "true"
             ELSE /\ otpPc' = IF otp_inputs >= digits THEN "type" ELSE "last_resort"
                  /\ UNCHANGED fillResult
    /\ UNCHANGED <<digits, fill_attempt, otp_inputs, typedIntoFocus>>
    /\ UNCHANGED <<orchVars, authVars, stableVars, urlVars, pickVars, csvVars, mailVars,
                 srvVars, runVars, tokVars, navVars, quotaVars, syncVars,
                 retryVars, glVars>>

\* lines 659-697: clear the boxes, focus the first one, type the digits and
\* check the submit control
TypeIntoBoxes ==
    /\ otpPc = "type"
    /\ \E k \in 0 .. digits : boxWrites' = Written(boxWrites, k, digits)
    /\ \E c \in CheckOutcomes :
          /\ lastCheck' = c
          /\ IF continue_enabled(c)
             THEN otpPc' = "done" /\ fillResult' = "true"
             ELSE otpPc' = "per_box" /\ UNCHANGED fillResult
    /\ UNCHANGED <<digits, fill_attempt, otp_inputs, enoughSeen, typedIntoFocus>>
    /\ UNCHANGED <<orchVars, authVars, stableVars, urlVars, pickVars, csvVars, mailVars,
                 srvVars, runVars, tokVars, navVars, quotaVars, syncVars,
                 retryVars, glVars>>

\* lines 699-715: the boxes are looked up again before each digit; the loop
\* breaks at the first lookup that finds too few, k digits having been written
PerBoxInput ==
    /\ otpPc = "per_box"
    /\ \E k \in 0 .. digits :
          /\ boxWrites' = Written(boxWrites, k, digits)
          /\ otp_inputs' \in (IF k = digits THEN {digits} ELSE 0 .. digits - 1)
    /\ \E c \in CheckOutcomes :
          /\ lastCheck' = c
          /\ IF continue_enabled(c)
             THEN otpPc' = "done" /\ fillResult' = "true" /\ UNCHANGED fill_attempt
             ELSE otpPc' = "locate" /\ fill_attempt' = fill_attempt + 1 /\ UNCHANGED fillResult
    /\ UNCHANGED <<digits, enoughSeen, typedIntoFocus>>
    /\ UNCHANGED <<orchVars, authVars, stableVars, urlVars, pickVars, csvVars, mailVars,
                 srvVars, runVars, tokVars, navVars, quotaVars, syncVars,
                 retryVars, glVars>>

\* a last resort that gives the call up when the submit control stays disabled
LastResortGivesUp ==
    /\ otpPc = "last_resort"
    /\ typedIntoFocus' = TRUE
    /\ \E c \in CheckOutcomes :
          /\ lastCheck' = c
          /\ otpPc' = "done"
          /\ fillResult' = IF continue_enabled(c) THEN "true" ELSE "false"
    /\ UNCHANGED <<digits, fill_attempt, otp_inputs, enoughSeen, boxWrites>>
    /\ UNCHANGED <<orchVars, authVars, stableVars, urlVars, pickVars, csvVars, mailVars,
                 srvVars, runVars, tokVars, navVars, quotaVars, syncVars,
                 retryVars, glVars>>

\* lines 716-725: too few boxes: type the digits into whatever has the focus,
\* then check the submit control
LastResort ==
    /\ otpPc = "last_resort"
    /\ typedIntoFocus' = TRUE
    /\ \E c \in CheckOutcomes :
          /\ lastCheck' = c
          /\ IF continue_enabled(c)
             THEN otpPc' = "done" /\ fillResult' = "true" /\ UNCHANGED fill_attempt
             ELSE otpPc' = "locate" /\ fill_attempt' = fill_attempt + 1 /\ UNCHANGED fillResult
    /\ UNCHANGED <<digits, otp_inputs, enoughSeen, boxWrites>>
    /\ UNCHANGED <<orchVars, authVars, stableVars, urlVars, pickVars, csvVars, mailVars,
                 srvVars, runVars, tokVars, navVars, quotaVars, syncVars,
                 retryVars, glVars>>

NextOtp ==
    \/ FillEntry
    \/ LocateBoxes
    \/ JsSetAndCheck
    \/ TypeIntoBoxes
    \/ PerBoxInput
    \/ LastResort

SpecOtp == InitOtp /\ [][NextOtp]_vars

\* every step of _fill_otp waits with a timeout, so a call that can take a
\* step takes it
SpecOtpLive == SpecOtp /\ WF_vars(NextOtp)

\* C13: when every lookup of a call finds fewer boxes than the code has
\* digits, _fill_otp reports failure, writes no strict subset of the digits
\* into boxes and does not report success after typing into the focus
C13_TooFewBoxesReportsFailure ==
    (digits > 0 /\ otpPc = "done" /\ ~enoughSeen) =>
        /\ fillResult = "false"
        /\ boxWrites # "partial"
        /\ ~(typedIntoFocus /\ fillResult = "true")


\* the check saw the submit control enabled, or the in-page query said so
SubmitReportedEnabled == lastCheck[1] = "enabled" \/ lastCheck[2] = "true"

FillOtpReturns ==
    /\ fill_attempt <= FillRounds
    /\ otpPc # "done" => fillResult = "running"
    /\ otpPc = "done" =>
          IF digits = 0
          THEN fillResult = "false" /\ lastCheck = Unchecked
          ELSE /\ fillResult = "true" <=> SubmitReportedEnabled
               /\ fillResult = "false" => fill_attempt = FillRounds

\* C29: _fill_otp ends after at most 6 rounds of the loop; it returns True
\* exactly when its latest check of the submit control succeeded, by the
\* control found or by the in-page query, and False for a code without
\* digits or after 6 rounds without a successful check
C29_FillOtpEndsWithCheckedResult ==
    []FillOtpReturns /\ <>(otpPc = "done")

\* all six rounds were used and the in-page query alone allowed the return
C29_Witness ==
    /\ otpPc = "done"
    /\ fillResult = "true"
    /\ fill_attempt = FillRounds - 1
    /\ lastCheck = <<"disabled", "true">>

C29_WitnessFalse ==
    /\ otpPc = "done"
    /\ fillResult = "false"
    /\ digits > 0
    /\ fill_attempt = FillRounds

\* this step is a round's end in which the boxes were not found: the last
\* resort of a round that began without them, or a per-box pass that lost them
RoundWithoutBoxes ==
    \/ otpPc = "last_resort"
    \/ otpPc = "per_box" /\ otp_inputs' < digits

GoesOnToNextRound ==
    /\ RoundWithoutBoxes =>
          /\ fillResult' # "false"
          /\ \/ fillResult' = "true"
             \/ otpPc' = "locate" /\ fill_attempt' = fill_attempt + 1
    /\ (otpPc = "locate" /\ fill_attempt < FillRounds) =>
          (otpPc' = "js_set" /\ fillResult' = "running")

\* C30: a round in which the boxes are not found does not make _fill_otp
\* return False: the call returns True or goes on to the next round, and a
\* next round that is not past the 6th looks the boxes up again
C30_MissingBoxesGoOnToNextRound == [][GoesOnToNextRound]_vars

\* a later round began although no lookup so far found the boxes
C30_Witness ==
    /\ otpPc = "js_set"
    /\ fill_attempt >= 1
    /\ ~enoughSeen
    /\ typedIntoFocus
(***************************************************************************)
(* _extract_backurl and the navigation of lines 921-925 taken alone. URLs  *)
(* are sequences of characters; "%" followed by two hexadecimal digits is  *)
(* a percent-encoded character.                                            *)
(***************************************************************************)
MaxUrlLen == 5        \* longest backurl parameter text explored

\* the characters of the parameter text: "2" and "5" are hexadecimal digits,
\* "x" is not
UrlChars == {"%", "2", "5", "x"}
HexDigits == {"2", "5"}

\* chr(int(a + b, 16))
HexChar(a, b) ==
    CASE a = "2" /\ b = "2" -> "\""
      [] a = "2" /\ b = "5" -> "%"
      [] a = "5" /\ b = "2" -> "R"
      [] a = "5" /\ b = "5" -> "U"

\* urllib.parse.unquote: every "%" followed by two hexadecimal digits becomes
\* the character they encode; any other "%" stays
RECURSIVE Unquote(_)
Unquote(s) ==
    IF s = <<>> THEN <<>>
    ELSE IF s[1] = "%" /\ Len(s) >= 3 /\ s[2] \in HexDigits /\ s[3] \in HexDigits
    THEN <<HexChar(s[2], s[3])>> \o Unquote(SubSeq(s, 4, Len(s)))
    ELSE <<s[1]>> \o Unquote(Tail(s))

UrlTexts == UNION {[1 .. n -> UrlChars] : n \in 0 .. MaxUrlLen}

UrlNone == <<"None">>                 \* Python None
UrlPending == <<"pending">>           \* not computed yet
ProfileUrl == <<"profile">>           \* "https://longcat.chat/platform/profile"

\* parse_qs(urlparse(url).query).get("backurl", [None])[0]: parse_qs decodes
\* the value once and drops a parameter whose value is blank
ParseQsBackurl(u) ==
    IF ~u.has \/ u.text = <<>> THEN UrlNone ELSE Unquote(u.text)

\* lines 786-796
ExtractBackurl(u) ==
    LET rawParam == ParseQsBackurl(u) IN
    IF rawParam = UrlNone \/ rawParam = <<>> THEN UrlNone ELSE Unquote(rawParam)

InitUrl ==
    /\ passport_login_url \in [has : BOOLEAN, text : UrlTexts]
    /\ backurlValue = UrlPending
    /\ navigated = UrlPending
    /\ OrchIdle
    /\ OrchIdleAuth
    /\ StableIdle
    /\ OtpIdle
    /\ PickIdle
    /\ CsvIdle
    /\ MailIdle
    /\ SrvIdle
    /\ RunIdle
    /\ TokIdle
    /\ NavIdle
    /\ QuotaIdle
    /\ SyncIdle
    /\ RetryIdle
    /\ GlIdle

\* line 827: backurl = _extract_backurl(passport_login_url)
CallExtractBackurl ==
    /\ backurlValue = UrlPending
    /\ backurlValue' = ExtractBackurl(passport_login_url)
    /\ UNCHANGED <<passport_login_url, navigated>>
    /\ UNCHANGED <<orchVars, authVars, stableVars, otpVars, pickVars, csvVars, mailVars,
                 srvVars, runVars, tokVars, navVars, quotaVars, syncVars,
                 retryVars, glVars>>

\* lines 921-925: page.get(backurl) if backurl else the profile page
VisitBackurl ==
    /\ backurlValue # UrlPending
    /\ navigated = UrlPending
    /\ navigated' = IF backurlValue # UrlNone THEN backurlValue ELSE ProfileUrl
    /\ UNCHANGED <<passport_login_url, backurlValue>>
    /\ UNCHANGED <<orchVars, authVars, stableVars, otpVars, pickVars, csvVars, mailVars,
                 srvVars, runVars, tokVars, navVars, quotaVars, syncVars,
                 retryVars, glVars>>

NextUrl ==
    \/ CallExtractBackurl
    \/ VisitBackurl

SpecUrl == InitUrl /\ [][NextUrl]_vars

\* C17: the URL navigated to after login is the backurl parameter of the
\* login URL with exactly one level of percent-encoding removed, so that an
\* encoding nested inside it is still there
C17_BackurlDecodedOnce ==
    (navigated # UrlPending /\ passport_login_url.has /\ passport_login_url.text # <<>>)
        => navigated = Unquote(passport_login_url.text)

(***************************************************************************)
(* _pick_otp_inputs (src/longcat_automation.py) taken alone. An element is *)
(* a record: its identity, the top-left corner (x, y) and size (w, h) of   *)
(* its rect, whether it carries the class oversea-verification-code-input, *)
(* its type attribute and whether maxlength is "1". The elements examined  *)
(* are displayed and empty.                                                *)
(***************************************************************************)
Boxes == 4            \* number of inputs in the row (expected_len)

RowTolerance == 18    \* abs(item[0] - c["y"]) <= 18
MinSide == 26         \* w < 26 or h < 26
MaxSide == 140        \* w > 140 or h > 140
RatioMinPct == 55     \* ratio < 0.55, in hundredths
RatioMaxPct == 190    \* ratio > 1.9, in hundredths
RowWeight == 1000     \* score = len(items) * 1000 - int(c["y"])
ScoreFloor == 0 - 10000   \* best_score = -10_000

\* the rows examined: where the row starts, how far a box may sit below the
\* row's top (within the tolerance that makes a row), the boxes' sizes
RowTops == {100, 14000}
RowJitter == {0, RowTolerance}
BoxSizes == {<<26, 26>>, <<77, 140>>, <<140, 74>>}
BoxTypes == {"text", "tel", "password"}
BoxX(k) == 50 * k - 40

Abs(n) == IF n < 0 THEN 0 - n ELSE n

\* lines 114, 142-147: the key (y, x) of the class-name path and of _pos
ByYX(a, b) == a.y < b.y \/ (a.y = b.y /\ a.x < b.x)
ByX(a, b) == a.x < b.x

Take(s, n) == SubSeq(s, 1, IF Len(s) < n THEN Len(s) ELSE n)

\* lines 160-185: the geometry filter
Plausible(el) ==
    /\ el.type \notin {"email", "password"}
    /\ el.w > 0 /\ el.h > 0
    /\ ~(el.w < MinSide \/ el.w > MaxSide \/ el.h < MinSide \/ el.h > MaxSide)
    /\ ~(el.w * 100 < RatioMinPct * el.h \/ el.w * 100 > RatioMaxPct * el.h)

\* lines 189-200: the item joins the first cluster whose average y is within
\* the tolerance (the average is kept as sum / count), or starts a new one
RECURSIVE PlaceItem(_, _, _)
PlaceItem(cs, it, i) ==
    IF i > Len(cs) THEN Append(cs, [sum |-> it.y, items |-> <<it>>])
    ELSE IF Abs(it.y * Len(cs[i].items) - cs[i].sum) <= RowTolerance * Len(cs[i].items)
    THEN [cs EXCEPT ![i] = [sum |-> @.sum + it.y, items |-> Append(@.items, it)]]
    ELSE PlaceItem(cs, it, i + 1)

RECURSIVE ClusterRows(_, _, _)
ClusterRows(geo, i, cs) ==
    IF i > Len(geo) THEN cs ELSE ClusterRows(geo, i + 1, PlaceItem(cs, geo[i], 1))

\* lines 202-213: the best cluster of at least n items; <<>> when there is none
RECURSIVE BestCluster(_, _, _, _, _)
BestCluster(cs, n, i, best, best_score) ==
    IF i > Len(cs) THEN best
    ELSE LET items == cs[i].items
             score == Len(items) * RowWeight - (cs[i].sum \div Len(items))
         IN  IF Len(items) >= n /\ score > best_score
             THEN BestCluster(cs, n, i + 1, SortSeq(items, ByX), score)
             ELSE BestCluster(cs, n, i + 1, best, best_score)

\* lines 120-140: _dedupe keeps the first element of each identity
RECURSIVE Dedupe(_)
Dedupe(s) ==
    IF s = <<>> THEN <<>>
    ELSE LET r == Dedupe(SubSeq(s, 1, Len(s) - 1))
             e == s[Len(s)]
         IN  IF \E j \in 1 .. Len(r) : r[j].id = e.id THEN r ELSE Append(r, e)

IsClassInput(el) == el.cls
HasMaxlength1(el) == el.maxlength1
NumericLike(el) == el.maxlength1 \/ el.type \in {"tel", "number"}

\* lines 220-253: the fallbacks
PickFallback(els, n) ==
    LET otp == SortSeq(Dedupe(SelectSeq(els, HasMaxlength1)), ByYX)
        otp2 == SortSeq(Dedupe(SelectSeq(els, NumericLike)), ByYX)
        visible == SortSeq(Dedupe(els), ByYX)
    IN  IF Len(otp) >= n THEN Take(otp, n)
        ELSE IF Len(otp2) >= n THEN Take(otp2, n)
        ELSE Take(visible, n)

\* lines 101-253
PickOtpInputs(els, n) ==
    LET cls_inputs == SortSeq(SelectSeq(els, IsClassInput), ByYX)
        geo == SortSeq(SelectSeq(els, Plausible), ByYX)
        best == Dedupe(BestCluster(ClusterRows(geo, 1, <<>>), n, 1, <<>>, ScoreFloor))
    IN  IF Len(cls_inputs) >= n THEN Take(cls_inputs, n)
        ELSE IF geo # <<>> /\ best # <<>> /\ Len(best) >= n THEN Take(best, n)
        ELSE PickFallback(els, n)

\* the DOM orders of a row: which box comes k-th in the document
DomOrders == {f \in [1 .. Boxes -> 1 .. Boxes] : \A i, j \in 1 .. Boxes : f[i] = f[j] => i = j}

InitPick ==
    /\ expected_len = Boxes
    /\ \E order \in DomOrders, jit \in [1 .. Boxes -> RowJitter], top \in RowTops,
          size \in BoxSizes, c \in BOOLEAN, t \in BoxTypes, m \in BOOLEAN :
          inputs = [k \in 1 .. Boxes |->
                       [id |-> order[k], x |-> BoxX(order[k]), y |-> top + jit[k],
                        w |-> size[1], h |-> size[2], cls |-> c, type |-> t,
                        maxlength1 |-> m]]
    /\ picked = <<>>
    /\ pickPc = "ready"
    /\ OrchIdle
    /\ OrchIdleAuth
    /\ StableIdle
    /\ OtpIdle
    /\ UrlIdle
    /\ CsvIdle
    /\ MailIdle
    /\ SrvIdle
    /\ RunIdle
    /\ TokIdle
    /\ NavIdle
    /\ QuotaIdle
    /\ SyncIdle
    /\ RetryIdle
    /\ GlIdle

\* the call
CallPickOtpInputs ==
    /\ pickPc = "ready"
    /\ picked' = PickOtpInputs(inputs, expected_len)
    /\ pickPc' = "done"
    /\ UNCHANGED <<inputs, expected_len>>
    /\ UNCHANGED <<orchVars, authVars, stableVars, otpVars, urlVars, csvVars, mailVars,
                 srvVars, runVars, tokVars, navVars, quotaVars, syncVars,
                 retryVars, glVars>>

NextPick == CallPickOtpInputs

SpecPick == InitPick /\ [][NextPick]_vars

\* the boxes are of plausible size and lie in one row
RowOfPlausibleBoxes ==
    /\ Len(inputs) >= 4
    /\ \A k \in 1 .. Len(inputs) :
          /\ inputs[k].w >= MinSide /\ inputs[k].w <= MaxSide
          /\ inputs[k].h >= MinSide /\ inputs[k].h <= MaxSide
          /\ inputs[k].w * 100 >= RatioMinPct * inputs[k].h
          /\ inputs[k].w * 100 <= RatioMaxPct * inputs[k].h
    /\ \A j, k \in 1 .. Len(inputs) : Abs(inputs[j].y - inputs[k].y) <= RowTolerance

\* C18: for N >= 4 displayed, empty inputs of plausible size in one row, in
\* any DOM order, _pick_otp_inputs(expected_len = N) returns exactly those N
\* elements by increasing x
C18_RowReturnedLeftToRight ==
    (pickPc = "done" /\ RowOfPlausibleBoxes) =>
        /\ Len(picked) = Len(inputs)
        /\ {picked[k].id : k \in 1 .. Len(picked)} = {inputs[k].id : k \in 1 .. Len(inputs)}
        /\ \A k \in 1 .. Len(picked) - 1 : picked[k].x < picked[k + 1].x


(***************************************************************************)
(* _pick_otp_inputs on a page with two rows of candidate boxes, far apart  *)
(* vertically: the choice among the row clusters (lines 186-218).          *)
(***************************************************************************)
\* the tops of the two rows, and how many boxes a row can hold
TwoRowTops == {100, 600, 1700, 14000}
RowSizes == 2 .. 4
ExpectedLens == {2, 3}

\* a row of n plausible boxes at top y, with identities from first on
BoxRow(y, n, first) ==
    [k \in 1 .. n |->
        [id |-> first + k - 1, x |-> BoxX(k), y |-> y, w |-> 40, h |-> 40,
         cls |-> FALSE, type |-> "text", maxlength1 |-> FALSE]]

InitTwoRows ==
    /\ expected_len \in ExpectedLens
    /\ \E ya \in TwoRowTops, yb \in TwoRowTops, na \in RowSizes, nb \in RowSizes :
          /\ ya # yb
          /\ inputs = BoxRow(ya, na, 1) \o BoxRow(yb, nb, na + 1)
    /\ picked = <<>>
    /\ pickPc = "ready"
    /\ OrchIdle
    /\ OrchIdleAuth
    /\ StableIdle
    /\ OtpIdle
    /\ UrlIdle
    /\ CsvIdle
    /\ MailIdle
    /\ SrvIdle
    /\ RunIdle
    /\ TokIdle
    /\ NavIdle
    /\ QuotaIdle
    /\ SyncIdle
    /\ RetryIdle
    /\ GlIdle

SpecTwoRows == InitTwoRows /\ [][NextPick]_vars

\* the candidate boxes at top y, and the tops of the rows that hold at least
\* the expected number of them
BoxesAt(y) == {k \in 1 .. Len(inputs) : inputs[k].y = y /\ Plausible(inputs[k])}
QualifyingTops ==
    {y \in {inputs[k].y : k \in 1 .. Len(inputs)} : Cardinality(BoxesAt(y)) >= expected_len}

\* greatest in the order (cluster size, then smaller top)
LexGreatestTop ==
    CHOOSE y \in QualifyingTops :
        \A z \in QualifyingTops \ {y} :
            \/ Cardinality(BoxesAt(y)) > Cardinality(BoxesAt(z))
            \/ Cardinality(BoxesAt(y)) = Cardinality(BoxesAt(z)) /\ y < z

\* C32: among the rows holding at least the expected number of candidate
\* boxes, the boxes returned are those of the row greatest in the order
\* (size, then smaller top), however far apart the rows are
C32_LargestClusterSelected ==
    (pickPc = "done" /\ QualifyingTops # {}) =>
        /\ Len(picked) = expected_len
        /\ \A k \in 1 .. Len(picked) : picked[k].y = LexGreatestTop
(***************************************************************************)
(* The CSV persistence (lines 1094-1152, _ensure_csv_header,               *)
(* _read_csv_header) taken alone. A text is a sequence of atoms: the comma *)
(* and the double quote are atoms of their own, every other atom is a run  *)
(* of ordinary characters. A file is a sequence of lines (no field holds a *)
(* line break), each line a text as csv.writer wrote it.                   *)
(***************************************************************************)
Comma == ","
Quote == "\""
Bom == "<U+FEFF>"

\* csv.writer, QUOTE_MINIMAL: a field holding a comma or a quote is wrapped
\* in quotes, its quotes doubled
NeedsQuoting(f) == \E i \in 1 .. Len(f) : f[i] \in {Comma, Quote}

RECURSIVE DoubleQuotes(_)
DoubleQuotes(f) ==
    IF f = <<>> THEN <<>>
    ELSE (IF f[1] = Quote THEN <<Quote, Quote>> ELSE <<f[1]>>) \o DoubleQuotes(Tail(f))

WriteField(f) == IF NeedsQuoting(f) THEN <<Quote>> \o DoubleQuotes(f) \o <<Quote>> ELSE f

RECURSIVE JoinFields(_)
JoinFields(r) ==
    IF r = <<>> THEN <<>>
    ELSE IF Len(r) = 1 THEN WriteField(r[1])
    ELSE WriteField(r[1]) \o <<Comma>> \o JoinFields(Tail(r))

\* csv.writer.writerow: a row of one empty field is written as ""
WriteRow(r) == IF r = << <<>> >> THEN <<Quote, Quote>> ELSE JoinFields(r)

\* csv.reader on one line: the reader's states START_RECORD / START_FIELD,
\* IN_FIELD, IN_QUOTED_FIELD, QUOTE_IN_QUOTED_FIELD
RECURSIVE ParseFrom(_, _, _, _, _)
ParseFrom(l, i, st, cur, out) ==
    IF i > Len(l)
    THEN IF st = "start_record" THEN out ELSE Append(out, cur)
    ELSE LET ch == l[i] IN
         CASE st \in {"start_record", "start_field"} ->
                 IF ch = Quote THEN ParseFrom(l, i + 1, "in_quoted", <<>>, out)
                 ELSE IF ch = Comma THEN ParseFrom(l, i + 1, "start_field", <<>>, Append(out, <<>>))
                 ELSE ParseFrom(l, i + 1, "in_field", <<ch>>, out)
           [] st = "in_field" ->
                 IF ch = Comma THEN ParseFrom(l, i + 1, "start_field", <<>>, Append(out, cur))
                 ELSE ParseFrom(l, i + 1, "in_field", Append(cur, ch), out)
           [] st = "in_quoted" ->
                 IF ch = Quote THEN ParseFrom(l, i + 1, "quote_in_quoted", cur, out)
                 ELSE ParseFrom(l, i + 1, "in_quoted", Append(cur, ch), out)
           [] st = "quote_in_quoted" ->
                 IF ch = Quote THEN ParseFrom(l, i + 1, "in_quoted", Append(cur, Quote), out)
                 ELSE IF ch = Comma THEN ParseFrom(l, i + 1, "start_field", <<>>, Append(out, cur))
                 ELSE ParseFrom(l, i + 1, "in_field", Append(cur, ch), out)

ParseLine(l) == ParseFrom(l, 1, "start_record", <<>>, <<>>)

Col(name) == <<name>>
\* lines 1100-1108
CsvHeader == <<Col("email"), Col("api_key_name"), Col("api_key"), Col("created_at"),
               Col("quota_applied"), Col("quota_applied_at"), Col("quota_apply_error")>>
\* line 1199
OldCsvHeader == SubSeq(CsvHeader, 1, 4)

\* lines 1193-1194 and 1232-1233: a byte order mark before the first name is dropped
RECURSIVE LstripBom(_)
LstripBom(f) == IF f # <<>> /\ f[1] = Bom THEN LstripBom(Tail(f)) ELSE f
StripBom(row) == IF row = <<>> THEN row ELSE [row EXCEPT ![1] = LstripBom(@)]

FileHasContent(f) == f.exists /\ f.lines # <<>>      \* exists and st_size > 0

\* list(r) + [""] * (len(header) - len(r)), cut to len(header)
PadRow(r, n) == [k \in 1 .. n |-> IF k <= Len(r) THEN r[k] ELSE <<>>]

\* lines 1174-1216
EnsureCsvHeader(f, header) ==
    IF ~FileHasContent(f) THEN f
    ELSE LET rows == [k \in 1 .. Len(f.lines) |-> ParseLine(f.lines[k])]
             existing == StripBom(rows[1])
         IN  IF existing = header THEN f
             ELSE IF existing # OldCsvHeader
                     /\ SubSeq(header, 1, IF Len(existing) < Len(header) THEN Len(existing)
                                          ELSE Len(header)) # existing
             THEN f
             ELSE [f EXCEPT !.lines =
                     <<WriteRow(header)>> \o
                     [k \in 1 .. Len(rows) - 1 |-> WriteRow(PadRow(rows[k + 1], Len(header)))]]

NoHeader == << <<"None">> >>
\* lines 1219-1235
ReadCsvHeader(f) ==
    IF ~FileHasContent(f) THEN NoHeader
    ELSE LET row == ParseLine(f.lines[1]) IN
         IF row = <<>> THEN NoHeader ELSE StripBom(row)

\* lines 1115-1119
QuotaCsv(r) ==
    IF r.quota_applied = "True" THEN <<"1">>
    ELSE IF r.quota_applied = "False" THEN <<"0">> ELSE <<>>

\* lines 1139-1148: row_map.get(col, "")
RowMapGet(r, col) ==
    CASE col = Col("email") -> r.email
      [] col = Col("api_key_name") -> r.api_key_name
      [] col = Col("api_key") -> r.api_key
      [] col = Col("created_at") -> r.created_at
      [] col = Col("quota_applied") -> QuotaCsv(r)
      [] col = Col("quota_applied_at") -> r.quota_applied_at
      [] col = Col("quota_apply_error") -> r.quota_apply_error
      [] OTHER -> <<>>

FullRow(r) == <<r.email, r.api_key_name, r.api_key, r.created_at, QuotaCsv(r),
                r.quota_applied_at, r.quota_apply_error>>

\* a writer that always emits the seven columns in the order of its own header
AppendRecordFixedColumns(f, r, header) ==
    LET file_exists == FileHasContent(f)
        withHeader == IF file_exists THEN f.lines ELSE <<WriteRow(header)>>
    IN  [exists |-> TRUE, lines |-> Append(withHeader, WriteRow(FullRow(r)))]

\* lines 1110-1148: open for append, write the header into a new or empty
\* file, then the row in the columns of the header found in the file
AppendRecord(f, r, header) ==
    LET file_exists == FileHasContent(f)
        withHeader == IF file_exists THEN f.lines ELSE <<WriteRow(header)>>
        found == ReadCsvHeader(f)
        actual == IF file_exists /\ found # NoHeader THEN found ELSE header
        row == IF actual = header THEN FullRow(r)
               ELSE [k \in 1 .. Len(actual) |-> RowMapGet(r, actual[k])]
    IN  [exists |-> TRUE, lines |-> Append(withHeader, WriteRow(row))]

\* the records saved
CsvRecords ==
    [email : {<<"a@x">>, <<"a", Comma, "b@x">>},
     api_key_name : {<<"lc-1">>, <<Quote, "lc", Quote>>},
     api_key : {<<"ak_1">>, <<"ak", Quote, Comma>>},
     created_at : {<<"2025-01-01T00:00:00">>},
     quota_applied : {"None"},
     quota_applied_at : {<<>>},
     quota_apply_error : {<<>>}]
    \cup
    [email : {<<"a@x">>},
     api_key_name : {<<"lc-1">>},
     api_key : {<<"ak_1">>},
     created_at : {<<"2025-01-01T00:00:00">>},
     quota_applied : {"True", "False"},
     quota_applied_at : {<<>>, <<"2025-01-01T00:00:09">>},
     quota_apply_error : {<<>>, <<"form", Comma, "closed">>}]

\* the first rows of the files found at csv_path
PriorHeaders ==
    { CsvHeader,                                            \* current
      [CsvHeader EXCEPT ![1] = <<Bom, "email">>],           \* current, after a BOM
      OldCsvHeader,                                         \* old 4-column schema
      SubSeq(CsvHeader, 1, 1), SubSeq(CsvHeader, 1, 5),     \* strict prefixes
      <<>>,                                                 \* a blank first line
      <<Col("api_key"), Col("email"), Col("created_at"), Col("api_key_name")>>,
      CsvHeader \o <<Col("note")>>,
      <<Col("name"), Col("key")>>,                          \* other schemas
      <<Col("email"), Col("api_key")>>,
      <<Col("email"), Col("email"), Col("api_key_name"), Col("api_key"), Col("created_at")>> }

\* the data rows such a file holds below its first row
PriorRows == { <<>>, << <<Col("old@x"), Col("n"), Col("k"), Col("t")>> >>,
               << <<Col("old@x"), Col("n")>>, <<Col("p"), <<"q", Comma>>, Col("r"), Col("s"), Col("0")>> >> }

PriorFiles ==
    {[exists |-> FALSE, lines |-> <<>>], [exists |-> TRUE, lines |-> <<>>]}
        \cup {[exists |-> TRUE,
               lines |-> <<WriteRow(h)>> \o [k \in 1 .. Len(rs) |-> WriteRow(rs[k])]] :
                 h \in PriorHeaders, rs \in PriorRows}

InitCsv ==
    /\ csvFile \in PriorFiles
    /\ csvRecord \in CsvRecords
    /\ csvPc = "ensure"
    /\ priorHeader = (IF FileHasContent(csvFile) THEN StripBom(ParseLine(csvFile.lines[1]))
                      ELSE <<>>)
    /\ OrchIdle
    /\ OrchIdleAuth
    /\ StableIdle
    /\ OtpIdle
    /\ UrlIdle
    /\ PickIdle
    /\ MailIdle
    /\ SrvIdle
    /\ RunIdle
    /\ TokIdle
    /\ NavIdle
    /\ QuotaIdle
    /\ SyncIdle
    /\ RetryIdle
    /\ GlIdle

\* line 1109: _ensure_csv_header(p, header)
CallEnsureCsvHeader ==
    /\ csvPc = "ensure"
    /\ csvFile' = EnsureCsvHeader(csvFile, CsvHeader)
    /\ csvPc' = "append"
    /\ UNCHANGED <<csvRecord, priorHeader>>
    /\ UNCHANGED <<orchVars, authVars, stableVars, otpVars, urlVars, pickVars, mailVars,
                 srvVars, runVars, tokVars, navVars, quotaVars, syncVars,
                 retryVars, glVars>>

\* lines 1110-1148
WriteCsvRow ==
    /\ csvPc = "append"
    /\ csvFile' = AppendRecord(csvFile, csvRecord, CsvHeader)
    /\ csvPc' = "done"
    /\ UNCHANGED <<csvRecord, priorHeader>>
    /\ UNCHANGED <<orchVars, authVars, stableVars, otpVars, urlVars, pickVars, mailVars,
                 srvVars, runVars, tokVars, navVars, quotaVars, syncVars,
                 retryVars, glVars>>

NextCsv ==
    \/ CallEnsureCsvHeader
    \/ WriteCsvRow

SpecCsv == InitCsv /\ [][NextCsv]_vars

\* reading the last row back by column name, as csv.DictReader does: the
\* names are the first row, a name that occurs twice yields the later column
Missing == <<"<missing>">>
ReadBack(f, name) ==
    LET names == StripBom(ParseLine(f.lines[1]))
        row == ParseLine(f.lines[Len(f.lines)])
        at == {k \in 1 .. Len(names) : names[k] = Col(name) /\ k <= Len(row)}
    IN  IF at = {} THEN Missing
        ELSE row[CHOOSE k \in at : \A j \in at : j <= k]

RoundTrip ==
    /\ ReadBack(csvFile, "email") = csvRecord.email
    /\ ReadBack(csvFile, "api_key_name") = csvRecord.api_key_name
    /\ ReadBack(csvFile, "api_key") = csvRecord.api_key
    /\ ReadBack(csvFile, "created_at") = csvRecord.created_at

HasFourColumns(h) ==
    \A name \in {"email", "api_key_name", "api_key", "created_at"} :
        \E k \in 1 .. Len(h) : h[k] = Col(name)

IsPrefixOfHeader(h) == Len(h) <= Len(CsvHeader) /\ h = SubSeq(CsvHeader, 1, Len(h))

\* C19 as stated: whatever the file held before, the appended row read back
\* by column name gives the record's email, api_key_name, api_key, created_at
C19_RoundTripAnyPriorFile == csvPc = "done" => RoundTrip

\* C19 amended: the round trip holds when the file was absent or empty, or
\* its first row was the current header, the old header or another prefix of
\* the current header, or a header that has the four columns
C19_RoundTripKnownColumns ==
    (csvPc = "done" /\ (IsPrefixOfHeader(priorHeader) \/ HasFourColumns(priorHeader)))
        => RoundTrip

C19_Witness ==
    /\ csvPc = "done" /\ priorHeader = OldCsvHeader /\ Len(csvFile.lines) = 4
    /\ csvRecord.email = <<"a", Comma, "b@x">> /\ RoundTrip

(***************************************************************************)
(* get_verification_code of GPTMailService (lines 188-246) and of          *)
(* DuckMailService (lines 462-545) taken alone. A text is a sequence of    *)
(* characters. A message carries the fields both providers read: GPTMail   *)
(* reads subject and content (the text field here), DuckMail reads         *)
(* subject and intro from the list and text and html from the detail of a  *)
(* message. Every item of an inbox is a JSON object.                       *)
(***************************************************************************)
MaxRetries == 3       \* largest max_retries explored
MinDigits == 4        \* \d{4,8}
MaxDigits == 8
SlowPathDepth == 3    \* items_sorted[:3]

DigitChars == {"0", "1", "2", "3", "4", "5", "6", "7", "8", "9"}
LetterChars ==
    {"a", "b", "c", "d", "e", "f", "g", "h", "i", "j", "k", "l", "m", "n", "o", "p",
     "q", "r", "s", "t", "u", "v", "w", "x", "y", "z", "C", "H", "L", "N", "Y"}
IsWordChar(c) == c \in DigitChars \cup LetterChars \cup {"_"}

NoCode == <<>>

\* _extract_code: re.search(r"\b(\d{4,8})\b", text), leftmost match
ExtractCode(t) ==
    LET EndsAt(i) == {j \in i .. Len(t) :
                         /\ j - i + 1 >= MinDigits /\ j - i + 1 <= MaxDigits
                         /\ \A k \in i .. j : t[k] \in DigitChars
                         /\ (j = Len(t) \/ ~IsWordChar(t[j + 1]))}
        starts == {i \in 1 .. Len(t) : (i = 1 \/ ~IsWordChar(t[i - 1])) /\ EndsAt(i) # {}}
    IN  IF starts = {} THEN NoCode
        ELSE LET i == CHOOSE s \in starts : \A s2 \in starts : s <= s2
                 j == CHOOSE e \in EndsAt(i) : \A e2 \in EndsAt(i) : e2 <= e
             IN  SubSeq(t, i, j)

\* a or b on codes
OrCode(a, b) == IF a # NoCode THEN a ELSE b

\* the texts that occur in messages
TxtEmpty == <<>>
TxtPlain == <<"H", "i">>
TxtSubjCode == <<"Y", "o", "u", "r", " ", "c", "o", "d", "e", " ", "i", "s", " ", "4", "8", "2", "1">>
TxtLogin == <<"L", "o", "g", "i", "n", " ", "5", "5", "5", "5", "5">>
TxtBodyCode == <<"C", "o", "d", "e", ":", "7", "3", "9", "2", "0", "1", ".">>
TxtShortDigits == <<"N", "o", " ", "1", "2", "3">>
TxtLongDigits == <<"1", "2", "3", "4", "5", "6", "7", "8", "9">>
TxtGlued == <<"i", "d", "_", "4", "8", "2", "1">>

Msg(subject, intro, text, html, ts, id, fetch) ==
    [subject |-> subject, intro |-> intro, text |-> text, html |-> html,
     ts |-> ts, id |-> id, fetch |-> fetch]

MsgScenario == Msg(TxtSubjCode, TxtEmpty, TxtPlain, TxtEmpty, 2, TRUE, TRUE)
MsgLogin == Msg(TxtLogin, TxtEmpty, TxtEmpty, TxtEmpty, 1, TRUE, TRUE)
MsgBodyOnly(ts, id, fetch) == Msg(TxtPlain, TxtEmpty, TxtBodyCode, TxtEmpty, ts, id, fetch)
MsgIntroShown == Msg(TxtPlain, TxtBodyCode, TxtBodyCode, TxtEmpty, 1, TRUE, TRUE)
MsgHtmlOnly == Msg(TxtPlain, TxtEmpty, TxtPlain, TxtBodyCode, 1, TRUE, TRUE)
MsgBoth == Msg(TxtSubjCode, TxtEmpty, TxtBodyCode, TxtEmpty, 2, TRUE, TRUE)
MsgNoiseA == Msg(TxtShortDigits, TxtEmpty, TxtGlued, TxtEmpty, 3, TRUE, TRUE)
MsgNoiseB == Msg(TxtPlain, TxtEmpty, TxtLongDigits, TxtEmpty, 3, TRUE, TRUE)

MailMessages ==
    {MsgScenario, MsgLogin, MsgIntroShown, MsgHtmlOnly, MsgBoth, MsgNoiseA, MsgNoiseB}
        \cup {MsgBodyOnly(ts, TRUE, TRUE) : ts \in {0, 1}}
        \cup {MsgBodyOnly(1, FALSE, TRUE), MsgBodyOnly(1, TRUE, FALSE)}

\* the inboxes a poll can find, in the order the provider lists them
Inboxes ==
    {<<>>} \cup {<<m>> : m \in MailMessages}
        \cup {<<m1, m2>> : m1 \in MailMessages, m2 \in MailMessages}
        \cup { <<MsgNoiseA, MsgNoiseB, MsgBodyOnly(1, TRUE, TRUE)>>,
               <<MsgNoiseA, MsgNoiseB, MsgNoiseA, MsgBodyOnly(1, TRUE, TRUE)>>,
               <<MsgBodyOnly(1, TRUE, TRUE), MsgNoiseA, MsgNoiseB, MsgNoiseA>>,
               <<MsgBodyOnly(0, TRUE, TRUE), MsgLogin, MsgNoiseB, MsgNoiseA>> }

\* lines 225-231: the items in list order, subject before content
RECURSIVE GptScan(_, _, _)
GptScan(items, k, lt) ==
    IF k > Len(items) THEN [code |-> NoCode, time |-> lt]
    ELSE LET lt2 == IF items[k].ts # 0 THEN items[k].ts ELSE lt
             code == OrCode(ExtractCode(items[k].subject), ExtractCode(items[k].text))
         IN  IF code # NoCode THEN [code |-> code, time |-> lt2]
             ELSE GptScan(items, k + 1, lt2)

\* lines 494-501: sorted(..., key=_msg_ts, reverse=True), a stable sort
NewestFirst(items) ==
    LET Rank(k) == Cardinality({j \in 1 .. Len(items) :
                       \/ items[j].ts > items[k].ts
                       \/ items[j].ts = items[k].ts /\ j < k}) + 1
    IN  [r \in 1 .. Len(items) |-> items[CHOOSE k \in 1 .. Len(items) : Rank(k) = r]]

\* lines 503-511: subject and intro of every message
RECURSIVE DuckFastPath(_, _, _)
DuckFastPath(sorted, k, lt) ==
    IF k > Len(sorted) THEN [code |-> NoCode, time |-> lt]
    ELSE LET lt2 == IF sorted[k].ts # 0 THEN sorted[k].ts ELSE lt
             code == OrCode(ExtractCode(sorted[k].subject), ExtractCode(sorted[k].intro))
         IN  IF code # NoCode THEN [code |-> code, time |-> lt2]
             ELSE DuckFastPath(sorted, k + 1, lt2)

\* lines 513-531: the full body of the newest messages
RECURSIVE DuckSlowPath(_, _)
DuckSlowPath(sorted, k) ==
    IF k > Len(sorted) \/ k > SlowPathDepth THEN NoCode
    ELSE IF ~sorted[k].id \/ ~sorted[k].fetch THEN DuckSlowPath(sorted, k + 1)
    ELSE LET code == OrCode(ExtractCode(sorted[k].text), ExtractCode(sorted[k].html))
         IN  IF code # NoCode THEN code ELSE DuckSlowPath(sorted, k + 1)

DuckScan(items, lt) ==
    LET sorted == NewestFirst(items)
        fast == DuckFastPath(sorted, 1, lt)
    IN  IF fast.code # NoCode THEN fast
        ELSE [code |-> DuckSlowPath(sorted, 1), time |-> fast.time]

ScanInbox(provider, items, lt) ==
    IF provider = "duckmail" THEN DuckScan(items, lt) ELSE GptScan(items, 1, lt)

ErrPoll == "get-emails failed"
ErrNoCode == "no verification code received"      \* the text of lines 246 and 545
ErrNoToken == "DuckMail: missing token for this email (create the email in this run first)"

Pending == [code |-> NoCode, err |-> "", time |-> 0]

\* some message's subject or body holds a token
HoldsToken(provider, m) ==
    \/ ExtractCode(m.subject) # NoCode
    \/ ExtractCode(m.text) # NoCode
    \/ provider = "duckmail" /\ (ExtractCode(m.intro) # NoCode \/ ExtractCode(m.html) # NoCode)
InboxHoldsToken(provider, items) == \E k \in 1 .. Len(items) : HoldsToken(provider, items[k])

\* a token where the provider looks: GPTMail in the subject or content of any
\* message; DuckMail in the subject or intro of any message, or in the body
\* of one of the three newest messages whose detail can be fetched
InListFields(provider, m) ==
    \/ ExtractCode(m.subject) # NoCode
    \/ IF provider = "duckmail" THEN ExtractCode(m.intro) # NoCode
       ELSE ExtractCode(m.text) # NoCode
InFetchedBody(m) ==
    m.id /\ m.fetch /\ (ExtractCode(m.text) # NoCode \/ ExtractCode(m.html) # NoCode)
TokenVisible(provider, items) ==
    \/ \E k \in 1 .. Len(items) : InListFields(provider, items[k])
    \/ /\ provider = "duckmail"
       /\ \E r \in 1 .. Len(items) : r <= SlowPathDepth /\ InFetchedBody(NewestFirst(items)[r])

\* the code of the first message that shows one: list order for GPTMail,
\* newest first for DuckMail, the subject before the other field
FirstVisibleCode(provider, items) ==
    LET ordered == IF provider = "duckmail" THEN NewestFirst(items) ELSE items
        listed == {k \in 1 .. Len(ordered) : InListFields(provider, ordered[k])}
        fetched == {k \in 1 .. Len(ordered) : k <= SlowPathDepth /\ InFetchedBody(ordered[k])}
        First(S) == CHOOSE k \in S : \A j \in S : k <= j
    IN  IF listed # {}
        THEN LET m == ordered[First(listed)] IN
             IF ExtractCode(m.subject) # NoCode THEN ExtractCode(m.subject)
             ELSE IF provider = "duckmail" THEN ExtractCode(m.intro) ELSE ExtractCode(m.text)
        ELSE IF fetched # {}
        THEN LET m == ordered[First(fetched)] IN
             IF ExtractCode(m.text) # NoCode THEN ExtractCode(m.text) ELSE ExtractCode(m.html)
        ELSE NoCode

InitMail ==
    /\ mailProvider \in {"gptmail", "duckmail"}
    /\ hasMailToken \in BOOLEAN
    /\ (mailProvider = "gptmail" => ~hasMailToken)
    /\ max_retries \in 1 .. MaxRetries
    /\ pollIndex = 0 /\ pollsMade = 0
    /\ last_error = "" /\ last_time = 0
    /\ mailPc = "entry" /\ mailResult = Pending
    /\ lastInbox = <<>> /\ missed = FALSE /\ missedVisible = FALSE
    /\ OrchIdle
    /\ OrchIdleAuth
    /\ StableIdle
    /\ OtpIdle
    /\ UrlIdle
    /\ PickIdle
    /\ CsvIdle
    /\ SrvIdle
    /\ RunIdle
    /\ TokIdle
    /\ NavIdle
    /\ QuotaIdle
    /\ SyncIdle
    /\ RetryIdle
    /\ GlIdle

\* lines 465-474: DuckMail gives up at once without a token for the mailbox
EnterGetVerificationCode ==
    /\ mailPc = "entry"
    /\ IF mailProvider = "duckmail" /\ ~hasMailToken
       THEN /\ mailResult' = [code |-> NoCode, err |-> ErrNoToken, time |-> 0]
            /\ mailPc' = "done"
       ELSE /\ mailPc' = "loop"
            /\ UNCHANGED mailResult
    /\ UNCHANGED <<mailProvider, hasMailToken, max_retries, pollIndex, pollsMade,
                   last_error, last_time, lastInbox, missed, missedVisible>>
    /\ UNCHANGED <<orchVars, authVars, stableVars, otpVars, urlVars, pickVars, csvVars,
                 srvVars, runVars, tokVars, navVars, quotaVars, syncVars,
                 retryVars, glVars>>

\* a poll that fails and leaves the loop variable where it was
PollErrorFree ==
    /\ mailPc = "loop" /\ pollIndex < max_retries
    /\ pollsMade' = pollsMade + 1
    /\ last_error' = ErrPoll
    /\ UNCHANGED <<mailProvider, hasMailToken, max_retries, pollIndex, last_time, mailPc,
                   mailResult, lastInbox, missed, missedVisible>>
    /\ UNCHANGED <<orchVars, authVars, stableVars, otpVars, urlVars, pickVars, csvVars,
                 srvVars, runVars, tokVars, navVars, quotaVars, syncVars,
                 retryVars, glVars>>

\* lines 207-220 / 477-489: the poll fails; the round is used up
PollError ==
    /\ mailPc = "loop" /\ pollIndex < max_retries
    /\ pollsMade' = pollsMade + 1
    /\ last_error' = ErrPoll
    /\ pollIndex' = pollIndex + 1
    /\ UNCHANGED <<mailProvider, hasMailToken, max_retries, last_time, mailPc,
                   mailResult, lastInbox, missed, missedVisible>>
    /\ UNCHANGED <<orchVars, authVars, stableVars, otpVars, urlVars, pickVars, csvVars,
                 srvVars, runVars, tokVars, navVars, quotaVars, syncVars,
                 retryVars, glVars>>

\* lines 207-243 / 477-543: the poll answers with an inbox
PollInbox ==
    /\ mailPc = "loop" /\ pollIndex < max_retries
    /\ \E items \in Inboxes :
        LET found == ScanInbox(mailProvider, items, last_time) IN
        /\ pollsMade' = pollsMade + 1
        /\ last_time' = found.time
        /\ IF found.code # NoCode
           THEN /\ mailResult' = [code |-> found.code, err |-> "", time |-> found.time]
                /\ mailPc' = "done"
                /\ lastInbox' = items
                /\ UNCHANGED <<pollIndex, missed, missedVisible>>
           ELSE /\ pollIndex' = pollIndex + 1
                /\ missed' = (missed \/ InboxHoldsToken(mailProvider, items))
                /\ missedVisible' = (missedVisible \/ TokenVisible(mailProvider, items))
                /\ UNCHANGED <<mailResult, mailPc, lastInbox>>
    /\ UNCHANGED <<mailProvider, hasMailToken, max_retries, last_error>>
    /\ UNCHANGED <<orchVars, authVars, stableVars, otpVars, urlVars, pickVars, csvVars,
                 srvVars, runVars, tokVars, navVars, quotaVars, syncVars,
                 retryVars, glVars>>

\* lines 246 / 545: the loop ran out
RetriesExhausted ==
    /\ mailPc = "loop" /\ pollIndex >= max_retries
    /\ mailResult' = [code |-> NoCode,
                      err |-> (IF last_error # "" THEN last_error ELSE ErrNoCode),
                      time |-> last_time]
    /\ mailPc' = "done"
    /\ UNCHANGED <<mailProvider, hasMailToken, max_retries, pollIndex, pollsMade,
                   last_error, last_time, lastInbox, missed, missedVisible>>
    /\ UNCHANGED <<orchVars, authVars, stableVars, otpVars, urlVars, pickVars, csvVars,
                 srvVars, runVars, tokVars, navVars, quotaVars, syncVars,
                 retryVars, glVars>>

NextMail ==
    \/ EnterGetVerificationCode
    \/ PollError
    \/ PollInbox
    \/ RetriesExhausted

SpecMail == InitMail /\ [][NextMail]_vars

ReturnedCode == mailPc = "done" /\ mailResult.code # NoCode
ReturnedFailure == mailPc = "done" /\ mailResult.code = NoCode

\* C16 as stated: at most max_retries polls; a code is returned, without an
\* error, at the first poll whose inbox holds a 4 to 8 digit token in some
\* subject or body; failure comes, with an error, only after max_retries
\* polls none of which held such a token
C16_CodeAtFirstPollWithToken ==
    /\ pollsMade <= max_retries
    /\ ~missed
    /\ ReturnedCode => (mailResult.err = "" /\ InboxHoldsToken(mailProvider, lastInbox))
    /\ ReturnedFailure => (mailResult.err # "" /\ pollsMade = max_retries)

\* C16 amended: at most max_retries polls, a failed poll counting as one;
\* a code is returned, without an error, at the first poll whose inbox shows
\* a token where the provider looks, and it is the code of the first message
\* that shows one; failure comes with an error after exactly max_retries
\* polls, or before any poll when DuckMail has no token for the mailbox
C16_CodeAtFirstPollWithVisibleToken ==
    /\ pollsMade <= max_retries
    /\ ~missedVisible
    /\ ReturnedCode =>
          /\ mailResult.err = ""
          /\ TokenVisible(mailProvider, lastInbox)
          /\ mailResult.code = FirstVisibleCode(mailProvider, lastInbox)
    /\ ReturnedFailure =>
          /\ mailResult.err # ""
          /\ IF mailProvider = "duckmail" /\ ~hasMailToken THEN pollsMade = 0
             ELSE pollsMade = max_retries

C16_Witness ==
    /\ ReturnedCode /\ pollsMade = 2 /\ last_error = ErrPoll
    /\ lastInbox = <<MsgScenario>>
    /\ mailResult = [code |-> <<"4", "8", "2", "1">>, err |-> "", time |-> 2]

(***************************************************************************)
(* The job state of hf_server.py: the threads that take STATE.lock. The    *)
(* lock is a threading.Lock: it is not reentrant, acquiring it blocks      *)
(* until it is free, whoever holds it. A `with STATE.lock:` block whose    *)
(* body calls nothing that takes the lock is one step: no other thread can *)
(* see inside it.                                                          *)
(***************************************************************************)
MaxHandlers == 2      \* POST /run requests explored
MaxTicks == 2         \* rounds of the scheduler's while loop explored

LockFree == <<"free", 0>>
PostThread(h) == <<"post", h>>
SchedThread == <<"sched", 0>>

\* the start-up trigger and every round of the loop can start one job thread
JobIds == 1 .. (MaxTicks + 1)

ExitCodes == {0, 1}   \* int(p.wait()), or 1 when Popen raised

InitSrv ==
    /\ stateLock = LockFree /\ stateRunning = FALSE /\ state_last_exit_code = "None"
    /\ handlerPc = [h \in 1 .. MaxHandlers |-> "idle"]
    /\ handlerReply = [h \in 1 .. MaxHandlers |-> "none"]
    /\ statusPc = "idle"
    /\ autoRun \in BOOLEAN /\ periodic \in BOOLEAN
    /\ schedPc = "init" /\ ticks = 0
    /\ jobPc = <<>> /\ jobExit = <<>>
    /\ OrchIdle
    /\ OrchIdleAuth
    /\ StableIdle
    /\ OtpIdle
    /\ UrlIdle
    /\ PickIdle
    /\ CsvIdle
    /\ MailIdle
    /\ RunIdle
    /\ TokIdle
    /\ NavIdle
    /\ QuotaIdle
    /\ SyncIdle
    /\ RetryIdle
    /\ GlIdle

\* line 584: a POST /run request reaches do_POST
PostRun(h) ==
    /\ handlerPc[h] = "idle"
    /\ handlerPc' = [handlerPc EXCEPT ![h] = "lock"]
    /\ UNCHANGED <<stateLock, stateRunning, state_last_exit_code, handlerReply, statusPc,
                   autoRun, periodic, schedPc, ticks, jobPc, jobExit>>
    /\ UNCHANGED <<orchVars, authVars, stableVars, otpVars, urlVars, pickVars, csvVars,
                 mailVars, runVars, tokVars, navVars, quotaVars, syncVars,
                 retryVars, glVars>>

\* line 585: with STATE.lock
PostLock(h) ==
    /\ handlerPc[h] = "lock"
    /\ stateLock = LockFree
    /\ stateLock' = PostThread(h)
    /\ handlerPc' = [handlerPc EXCEPT ![h] = "locked"]
    /\ UNCHANGED <<stateRunning, state_last_exit_code, handlerReply, statusPc,
                   autoRun, periodic, schedPc, ticks, jobPc, jobExit>>
    /\ UNCHANGED <<orchVars, authVars, stableVars, otpVars, urlVars, pickVars, csvVars,
                 mailVars, runVars, tokVars, navVars, quotaVars, syncVars,
                 retryVars, glVars>>

\* lines 586-589: if STATE.running ... else the call of _maybe_start_job begins
PostCheck(h) ==
    /\ handlerPc[h] = "locked"
    /\ IF stateRunning
       THEN /\ handlerPc' = [handlerPc EXCEPT ![h] = "send"]
            /\ handlerReply' = [handlerReply EXCEPT ![h] = "already_running"]
       ELSE /\ handlerPc' = [handlerPc EXCEPT ![h] = "call"]
            /\ UNCHANGED handlerReply
    /\ UNCHANGED <<stateLock, stateRunning, state_last_exit_code, statusPc,
                   autoRun, periodic, schedPc, ticks, jobPc, jobExit>>
    /\ UNCHANGED <<orchVars, authVars, stableVars, otpVars, urlVars, pickVars, csvVars,
                 mailVars, runVars, tokVars, navVars, quotaVars, syncVars,
                 retryVars, glVars>>

\* lines 587-588, 590-591: _send_json, then the with block is left
PostSend(h) ==
    /\ handlerPc[h] = "send"
    /\ stateLock' = LockFree
    /\ handlerPc' = [handlerPc EXCEPT ![h] = "done"]
    /\ UNCHANGED <<stateRunning, state_last_exit_code, handlerReply, statusPc,
                   autoRun, periodic, schedPc, ticks, jobPc, jobExit>>
    /\ UNCHANGED <<orchVars, authVars, stableVars, otpVars, urlVars, pickVars, csvVars,
                 mailVars, runVars, tokVars, navVars, quotaVars, syncVars,
                 retryVars, glVars>>

\* a GET /status request reaches do_GET
StatusRequest ==
    /\ statusPc = "idle"
    /\ statusPc' = "lock"
    /\ UNCHANGED <<stateLock, stateRunning, state_last_exit_code, handlerPc, handlerReply,
                   autoRun, periodic, schedPc, ticks, jobPc, jobExit>>
    /\ UNCHANGED <<orchVars, authVars, stableVars, otpVars, urlVars, pickVars, csvVars,
                 mailVars, runVars, tokVars, navVars, quotaVars, syncVars,
                 retryVars, glVars>>

\* lines 542-549: with STATE.lock: payload = {...}
StatusRead ==
    /\ statusPc = "lock"
    /\ stateLock = LockFree
    /\ statusPc' = "done"
    /\ UNCHANGED <<stateLock, stateRunning, state_last_exit_code, handlerPc, handlerReply,
                   autoRun, periodic, schedPc, ticks, jobPc, jobExit>>
    /\ UNCHANGED <<orchVars, authVars, stableVars, otpVars, urlVars, pickVars, csvVars,
                 mailVars, runVars, tokVars, navVars, quotaVars, syncVars,
                 retryVars, glVars>>

\* lines 341-352: the scheduler reads its settings; with auto it calls
\* _maybe_start_job, without an interval it returns
SchedInit ==
    /\ schedPc = "init"
    /\ schedPc' = (IF autoRun THEN "startup_call" ELSE IF periodic THEN "sleep" ELSE "returned")
    /\ UNCHANGED <<stateLock, stateRunning, state_last_exit_code, handlerPc, handlerReply,
                   statusPc, autoRun, periodic, ticks, jobPc, jobExit>>
    /\ UNCHANGED <<orchVars, authVars, stableVars, otpVars, urlVars, pickVars, csvVars,
                 mailVars, runVars, tokVars, navVars, quotaVars, syncVars,
                 retryVars, glVars>>

\* lines 355-359: the sleep ends and a round of the while loop calls
\* _maybe_start_job
SchedWake ==
    /\ schedPc = "sleep"
    /\ ticks < MaxTicks
    /\ schedPc' = "loop_call"
    /\ ticks' = ticks + 1
    /\ UNCHANGED <<stateLock, stateRunning, state_last_exit_code, handlerPc, handlerReply,
                   statusPc, autoRun, periodic, jobPc, jobExit>>
    /\ UNCHANGED <<orchVars, authVars, stableVars, otpVars, urlVars, pickVars, csvVars,
                 mailVars, runVars, tokVars, navVars, quotaVars, syncVars,
                 retryVars, glVars>>

\* the threads that call _maybe_start_job, and where they do so (lines 349,
\* 358 and 589)
Callers == {SchedThread} \cup {PostThread(h) : h \in 1 .. MaxHandlers}
AtCall(t) ==
    IF t = SchedThread THEN schedPc \in {"startup_call", "loop_call"}
    ELSE handlerPc[t[2]] = "call"

\* lines 322-328 _maybe_start_job, called by thread t: take the lock and,
\* unless STATE.running, start a job thread; the caller goes on with the
\* value returned. A handler is still inside its own `with STATE.lock` here.
MaybeStartJob(t) ==
    /\ AtCall(t)
    /\ stateLock = LockFree
    /\ IF stateRunning
       THEN UNCHANGED <<jobPc, jobExit>>
       ELSE /\ jobPc' = Append(jobPc, "started")
            /\ jobExit' = Append(jobExit, "None")
    /\ IF t = SchedThread
       THEN /\ schedPc' = (IF schedPc = "startup_call" /\ ~periodic THEN "returned" ELSE "sleep")
            /\ UNCHANGED <<handlerPc, handlerReply>>
       ELSE /\ handlerPc' = [handlerPc EXCEPT ![t[2]] = "send"]
            /\ handlerReply' = [handlerReply EXCEPT ![t[2]] =
                                  IF stateRunning THEN "started_false" ELSE "started_true"]
            /\ UNCHANGED schedPc
    /\ UNCHANGED <<stateLock, stateRunning, state_last_exit_code, statusPc, autoRun,
                   periodic, ticks>>
    /\ UNCHANGED <<orchVars, authVars, stableVars, otpVars, urlVars, pickVars, csvVars,
                 mailVars, runVars, tokVars, navVars, quotaVars, syncVars,
                 retryVars, glVars>>

\* lines 293-298: the job thread marks the run as started
JobBegin(j) ==
    /\ j \in DOMAIN jobPc
    /\ jobPc[j] = "started"
    /\ stateLock = LockFree
    /\ stateRunning' = TRUE
    /\ state_last_exit_code' = "None"
    /\ jobPc' = [jobPc EXCEPT ![j] = "subprocess"]
    /\ UNCHANGED <<stateLock, handlerPc, handlerReply, statusPc, autoRun, periodic,
                   schedPc, ticks, jobExit>>
    /\ UNCHANGED <<orchVars, authVars, stableVars, otpVars, urlVars, pickVars, csvVars,
                 mailVars, runVars, tokVars, navVars, quotaVars, syncVars,
                 retryVars, glVars>>

\* lines 303-312: run.py runs as a subprocess and ends
JobExits(j) ==
    /\ j \in DOMAIN jobPc
    /\ jobPc[j] = "subprocess"
    /\ \E code \in ExitCodes : jobExit' = [jobExit EXCEPT ![j] = code]
    /\ jobPc' = [jobPc EXCEPT ![j] = "finally"]
    /\ UNCHANGED <<stateLock, stateRunning, state_last_exit_code, handlerPc, handlerReply,
                   statusPc, autoRun, periodic, schedPc, ticks>>
    /\ UNCHANGED <<orchVars, authVars, stableVars, otpVars, urlVars, pickVars, csvVars,
                 mailVars, runVars, tokVars, navVars, quotaVars, syncVars,
                 retryVars, glVars>>

\* lines 313-319: finally
JobFinish(j) ==
    /\ j \in DOMAIN jobPc
    /\ jobPc[j] = "finally"
    /\ stateLock = LockFree
    /\ stateRunning' = FALSE
    /\ state_last_exit_code' = jobExit[j]
    /\ jobPc' = [jobPc EXCEPT ![j] = "done"]
    /\ UNCHANGED <<stateLock, handlerPc, handlerReply, statusPc, autoRun, periodic,
                   schedPc, ticks, jobExit>>
    /\ UNCHANGED <<orchVars, authVars, stableVars, otpVars, urlVars, pickVars, csvVars,
                 mailVars, runVars, tokVars, navVars, quotaVars, syncVars,
                 retryVars, glVars>>

NextSrv ==
    \/ \E h \in 1 .. MaxHandlers : PostRun(h)
    \/ \E h \in 1 .. MaxHandlers : PostLock(h)
    \/ \E h \in 1 .. MaxHandlers : PostCheck(h)
    \/ \E h \in 1 .. MaxHandlers : PostSend(h)
    \/ StatusRequest
    \/ StatusRead
    \/ SchedInit
    \/ SchedWake
    \/ \E t \in Callers : MaybeStartJob(t)
    \/ \E j \in JobIds : JobBegin(j)
    \/ \E j \in JobIds : JobExits(j)
    \/ \E j \in JobIds : JobFinish(j)

SpecSrv == InitSrv /\ [][NextSrv]_vars

\* C21: a POST /run handler that found no job running does not wait for a
\* lock it holds itself: it goes on to start a run, answers started: true
\* and frees the lock
C21_RunHandlerCompletes ==
    \A h \in 1 .. MaxHandlers : ~(handlerPc[h] = "call" /\ stateLock = PostThread(h))

\* C22: at most one run.py subprocess is executing at any time
C22_AtMostOneRun ==
    Cardinality({j \in 1 .. Len(jobPc) : jobPc[j] = "subprocess"}) <= 1

(***************************************************************************)
(* run.py: main, cmd_generate, cmd_gpt_load_sync and                       *)
(* _maybe_sync_keys_to_gpt_load. A text is a sequence of characters.       *)
(***************************************************************************)
MaxCount == 2         \* largest count explored

\* str.strip() on a text of blanks and other characters
RECURSIVE LStrip(_)
LStrip(t) == IF t # <<>> /\ t[1] = " " THEN LStrip(Tail(t)) ELSE t
RECURSIVE RStrip(_)
RStrip(t) == IF t # <<>> /\ t[Len(t)] = " " THEN RStrip(SubSeq(t, 1, Len(t) - 1)) ELSE t
Strip(t) == RStrip(LStrip(t))

\* the auth keys configured: none, blanks, a key, a key between blanks
AuthKeyTexts == {<<>>, <<" ", " ">>, <<"k", "1">>, <<" ", "k", " ", "1", " ">>}

\* what create_longcat_account_and_api_key may return as api_key: a key, a
\* key between blanks, blanks only
ApiKeyTexts == {<<"a">>, <<" ", "b", " ">>, <<" ">>}

\* the keys file as an earlier run left it
EarlierKeysFiles == {<<>>, <<(<<"o">>)>>}

\* the ways sync_keys_to_gpt_load ends inside the try of lines 89-105
SyncEndings == {"returned", "GptLoadSyncError", "Exception"}

\* lines 38-42 _reset_keys_file
reset_keys_file == <<>>

\* a key file opened for writing instead of appending
AppendKeyLineTruncating(file, key) ==
    IF Strip(key) = <<>> THEN file ELSE <<Strip(key)>>

\* lines 45-50 _append_key_line
append_key_line(file, key) ==
    IF Strip(key) = <<>> THEN file ELSE Append(file, Strip(key))

\* lines 59 and 139: auth_key = (GPT_LOAD_AUTH_KEY or "").strip(); not auth_key
AuthKeyMissing == Strip(gpt_load_auth_key) = <<>>

InitRun ==
    /\ runCmd \in {"run", "gpt-load-sync"}
    /\ gpt_load_auth_key \in AuthKeyTexts
    /\ gpt_load_enabled \in BOOLEAN
    /\ runCount \in 0 .. MaxCount
    /\ results = 0 /\ runPc = "main" /\ exitStatus = "running"
    /\ syncCalls = 0 /\ missingAuthLogged = 0
    /\ keysFile \in EarlierKeysFiles /\ runLog = <<>>
    /\ OrchIdle
    /\ OrchIdleAuth
    /\ StableIdle
    /\ OtpIdle
    /\ UrlIdle
    /\ PickIdle
    /\ CsvIdle
    /\ MailIdle
    /\ SrvIdle
    /\ TokIdle
    /\ NavIdle
    /\ QuotaIdle
    /\ SyncIdle
    /\ RetryIdle
    /\ GlIdle

\* lines 136-141 and 172-175: the manual command refuses to run without a key
CmdGptLoadSync ==
    /\ runPc = "main" /\ runCmd = "gpt-load-sync"
    /\ IF AuthKeyMissing
       THEN runPc' = "done" /\ exitStatus' = "SystemExit: Missing config.toml [gpt_load].auth_key"
       ELSE runPc' = "sync_file" /\ UNCHANGED exitStatus
    /\ UNCHANGED <<runCmd, gpt_load_auth_key, gpt_load_enabled, runCount, results,
                   syncCalls, missingAuthLogged>>
    /\ UNCHANGED <<keysFile, runLog>>
    /\ UNCHANGED <<orchVars, authVars, stableVars, otpVars, urlVars, pickVars, csvVars,
                 mailVars, srvVars, tokVars, navVars, quotaVars, syncVars,
                 retryVars, glVars>>

\* lines 143-154, 173-175: sync_keys_file_to_gpt_load returns or raises
SyncKeysFile ==
    /\ runPc = "sync_file"
    /\ syncCalls' = syncCalls + 1
    /\ runPc' = "done"
    /\ exitStatus' \in {"0", "GptLoadSyncError"}
    /\ UNCHANGED <<runCmd, gpt_load_auth_key, gpt_load_enabled, runCount, results,
                   missingAuthLogged>>
    /\ UNCHANGED <<keysFile, runLog>>
    /\ UNCHANGED <<orchVars, authVars, stableVars, otpVars, urlVars, pickVars, csvVars,
                 mailVars, srvVars, tokVars, navVars, quotaVars, syncVars,
                 retryVars, glVars>>

\* lines 177-182 and 185: the run command with nothing to do; lines 186 and
\* 111-115: cmd_generate begins and empties the keys file
CmdRun ==
    /\ runPc = "main" /\ runCmd = "run"
    /\ IF runCount <= 0
       THEN runPc' = "done" /\ exitStatus' = "0" /\ UNCHANGED keysFile
       ELSE runPc' = "generate" /\ keysFile' = reset_keys_file /\ UNCHANGED exitStatus
    /\ UNCHANGED runLog
    /\ UNCHANGED <<runCmd, gpt_load_auth_key, gpt_load_enabled, runCount, results,
                   syncCalls, missingAuthLogged>>
    /\ UNCHANGED <<orchVars, authVars, stableVars, otpVars, urlVars, pickVars, csvVars,
                 mailVars, srvVars, tokVars, navVars, quotaVars, syncVars,
                 retryVars, glVars>>

\* lines 116-128: one key is created and written, or the creation raises
GenerateKey ==
    /\ runPc = "generate"
    /\ \/ \E api_key \in ApiKeyTexts :
             /\ results' = results + 1
             /\ keysFile' = append_key_line(keysFile, api_key)
             /\ runLog' = Append(runLog, <<"generated", api_key, "">>)
             /\ runPc' = "sync_one"
             /\ UNCHANGED exitStatus
       \/ /\ runPc' = "done"
          /\ exitStatus' = "RuntimeError: LongCat flow failed"
          /\ runLog' = Append(runLog, <<"generation_failed", <<>>, "">>)
          /\ UNCHANGED <<results, keysFile>>
    /\ UNCHANGED <<runCmd, gpt_load_auth_key, gpt_load_enabled, runCount,
                   syncCalls, missingAuthLogged>>
    /\ UNCHANGED <<orchVars, authVars, stableVars, otpVars, urlVars, pickVars, csvVars,
                 mailVars, srvVars, tokVars, navVars, quotaVars, syncVars,
                 retryVars, glVars>>

\* a sync step that treats the missing key as an error of the run
MaybeSyncKeysStrict ==
    /\ runPc = "sync_one"
    /\ IF ~gpt_load_enabled
       THEN runPc' = "next_key" /\ UNCHANGED <<syncCalls, exitStatus>>
       ELSE IF AuthKeyMissing
       THEN runPc' = "done" /\ exitStatus' = "GptLoadSyncError" /\ UNCHANGED syncCalls
       ELSE runPc' = "next_key" /\ syncCalls' = syncCalls + 1 /\ UNCHANGED exitStatus
    /\ UNCHANGED <<runCmd, gpt_load_auth_key, gpt_load_enabled, runCount, results,
                   missingAuthLogged>>
    /\ UNCHANGED <<keysFile, runLog>>
    /\ UNCHANGED <<orchVars, authVars, stableVars, otpVars, urlVars, pickVars, csvVars,
                 mailVars, srvVars, tokVars, navVars, quotaVars, syncVars,
                 retryVars, glVars>>

\* lines 53-107 _maybe_sync_keys_to_gpt_load([api_key]): nothing when the sync
\* is off; a warning, once, when the key is missing; otherwise the sync,
\* whose errors are logged and dropped
MaybeSyncKeysToGptLoad ==
    /\ runPc = "sync_one"
    /\ LET api_key == runLog[Len(runLog)][2] IN
       IF ~gpt_load_enabled
       THEN /\ runLog' = Append(runLog, <<"offered", api_key, "disabled">>)
            /\ UNCHANGED <<syncCalls, missingAuthLogged>>
       ELSE IF AuthKeyMissing
       THEN /\ missingAuthLogged' = (IF missingAuthLogged = 0 THEN 1 ELSE missingAuthLogged)
            /\ runLog' = Append(runLog, <<"offered", api_key, "no_auth_key">>)
            /\ UNCHANGED syncCalls
       ELSE /\ syncCalls' = syncCalls + 1
            /\ \E ending \in SyncEndings :
                  runLog' = Append(runLog, <<"offered", api_key, ending>>)
            /\ UNCHANGED missingAuthLogged
    /\ UNCHANGED keysFile
    /\ runPc' = "next_key"
    /\ UNCHANGED <<runCmd, gpt_load_auth_key, gpt_load_enabled, runCount, results, exitStatus>>
    /\ UNCHANGED <<orchVars, authVars, stableVars, otpVars, urlVars, pickVars, csvVars,
                 mailVars, srvVars, tokVars, navVars, quotaVars, syncVars,
                 retryVars, glVars>>

\* lines 115 and 183-185: the next round of the loop, or the results are printed
NextKey ==
    /\ runPc = "next_key"
    /\ IF results < runCount
       THEN runPc' = "generate" /\ UNCHANGED exitStatus
       ELSE runPc' = "done" /\ exitStatus' = "0"
    /\ UNCHANGED <<runCmd, gpt_load_auth_key, gpt_load_enabled, runCount, results,
                   syncCalls, missingAuthLogged>>
    /\ UNCHANGED <<keysFile, runLog>>
    /\ UNCHANGED <<orchVars, authVars, stableVars, otpVars, urlVars, pickVars, csvVars,
                 mailVars, srvVars, tokVars, navVars, quotaVars, syncVars,
                 retryVars, glVars>>

NextRun ==
    \/ CmdGptLoadSync
    \/ SyncKeysFile
    \/ CmdRun
    \/ GenerateKey
    \/ MaybeSyncKeysToGptLoad
    \/ NextKey

SpecRun == InitRun /\ [][NextRun]_vars

SyncWanted == runCmd = "gpt-load-sync" \/ (runCmd = "run" /\ gpt_load_enabled /\ runCount > 0)

\* C23 as stated: without an auth key both the manual sync command and a
\* key-generation run with sync enabled end with an error
C23_MissingAuthKeyStopsRun ==
    (runPc = "done" /\ AuthKeyMissing /\ SyncWanted) => exitStatus # "0"

\* C23 amended: without an auth key no sync call is made; the manual sync
\* command ends with SystemExit; a key-generation run with sync enabled logs
\* one warning at most and goes on: it ends with an error only when the key
\* creation itself failed, and otherwise with all keys generated
C23_MissingAuthKeyStopsManualSyncOnly ==
    AuthKeyMissing =>
        /\ syncCalls = 0
        /\ missingAuthLogged <= 1
        /\ (runPc = "done" /\ runCmd = "gpt-load-sync") =>
              exitStatus = "SystemExit: Missing config.toml [gpt_load].auth_key"
        /\ (runPc = "done" /\ runCmd = "run") =>
              \/ exitStatus = "0" /\ results = runCount
              \/ exitStatus = "RuntimeError: LongCat flow failed" /\ results < runCount

C23_Witness ==
    /\ runPc = "done" /\ runCmd = "run" /\ gpt_load_enabled /\ AuthKeyMissing
    /\ gpt_load_auth_key = <<" ", " ">>
    /\ runCount = 2 /\ results = 2 /\ exitStatus = "0" /\ missingAuthLogged = 1 /\ syncCalls = 0

\* the texts of the keys generated among the first n entries of runLog, as
\* they stand in a file: stripped, blanks left out
RECURSIVE KeysGenerated(_)
KeysGenerated(n) ==
    IF n = 0 THEN <<>>
    ELSE IF runLog[n][1] = "generated" /\ Strip(runLog[n][2]) # <<>>
    THEN Append(KeysGenerated(n - 1), Strip(runLog[n][2]))
    ELSE KeysGenerated(n - 1)

Generations == {j \in 1 .. Len(runLog) : runLog[j][1] = "generated"}

\* C37: in a generation run the keys file holds the keys generated so far,
\* in order, from the moment each is generated; each key is offered to the
\* sync before anything else happens; whatever the sync does, the run goes
\* on to the next key and ends normally with all keys; a run that ends
\* with an error ended at a failed generation, with the keys generated
\* before it in the file
C37_KeysKeptAndOfferedInTurn ==
    (runCmd = "run" /\ runPc \notin {"main", "idle"} /\ runCount > 0) =>
        /\ keysFile = KeysGenerated(Len(runLog))
        /\ \A j \in 1 .. Len(runLog) :
              /\ runLog[j][1] = "generated" =>
                    /\ j > 1 => runLog[j - 1][1] = "offered"
                    /\ IF j = Len(runLog) THEN runPc = "sync_one"
                       ELSE runLog[j + 1][1] = "offered" /\ runLog[j + 1][2] = runLog[j][2]
              /\ runLog[j][1] = "offered" => (j > 1 /\ runLog[j - 1][1] = "generated")
              /\ runLog[j][1] = "generation_failed" => j = Len(runLog)
        /\ results = Cardinality(Generations)
        /\ runPc = "done" =>
              \/ exitStatus = "0" /\ results = runCount
                    /\ runLog[Len(runLog)][1] = "offered"
              \/ exitStatus = "RuntimeError: LongCat flow failed" /\ results < runCount
                    /\ runLog[Len(runLog)][1] = "generation_failed"
                    /\ keysFile = KeysGenerated(Len(runLog) - 1)

\* the second generation failed after the sync of the first key had raised
C37_Witness ==
    /\ runPc = "done" /\ runCmd = "run" /\ runCount = 2
    /\ exitStatus = "RuntimeError: LongCat flow failed"
    /\ runLog = << <<"generated", <<" ", "b", " ">>, "">>,
                   <<"offered", <<" ", "b", " ">>, "Exception">>,
                   <<"generation_failed", <<>>, "">> >>
    /\ keysFile = <<(<<"b">>)>>

C37_WitnessAllKeys ==
    /\ runPc = "done" /\ runCmd = "run" /\ runCount = 2 /\ exitStatus = "0"
    /\ keysFile = << <<"a">>, <<"b">> >>
    /\ \E j \in 1 .. Len(runLog) : runLog[j][3] = "GptLoadSyncError"

(***************************************************************************)
(* The DuckMail service object: duckmail_service is created once, when the *)
(* module is imported (line 549), and its _tokens dictionary (line 271) is *)
(* the mapping every attempt of every run in the process consults.         *)
(***************************************************************************)
MaxIdentities == 3    \* attempts explored, over all runs of the process

\* the addresses generate_email can come up with, or a caller can pass
Addresses == {"m1", "m2", "m3"}
NoToken == <<"None", 0>>

\* dict assignment d[k] = v
DictSet(d, k, v) == [x \in DOMAIN d \cup {k} |-> IF x = k THEN v ELSE d[x]]
\* d.get(k)
DictGet(d, k) == IF k \in DOMAIN d THEN d[k] ELSE NoToken

InitTok ==
    /\ duckAccounts = {} /\ duck_tokens = <<>>
    /\ tokAttempt = 0 /\ tokEmail = "None" /\ tokPc = "idle" /\ tokSerial = 0
    /\ storedBy = <<>> /\ lookups = <<>>
    /\ OrchIdle
    /\ OrchIdleAuth
    /\ StableIdle
    /\ OtpIdle
    /\ UrlIdle
    /\ PickIdle
    /\ CsvIdle
    /\ MailIdle
    /\ SrvIdle
    /\ RunIdle
    /\ NavIdle
    /\ QuotaIdle
    /\ SyncIdle
    /\ RetryIdle
    /\ GlIdle

\* longcat_automation.py lines 834-841: an attempt begins, with the caller's
\* email or with a call of unified_create_email
BeginAttempt ==
    /\ tokPc = "idle"
    /\ tokAttempt < MaxIdentities
    /\ tokAttempt' = tokAttempt + 1
    /\ \/ /\ \E e \in Addresses : tokEmail' = e
          /\ tokPc' = "poll"
       \/ /\ tokEmail' = "None"
          /\ tokPc' = "create"
    /\ UNCHANGED <<duckAccounts, duck_tokens, tokSerial, storedBy, lookups>>
    /\ UNCHANGED <<orchVars, authVars, stableVars, otpVars, urlVars, pickVars, csvVars,
                 mailVars, srvVars, runVars, navVars, quotaVars, syncVars,
                 retryVars, glVars>>

\* lines 409-437 generate_email with 389-407 login: an address that does not
\* exist yet is created (a collision is retried with another one); the login
\* stores its token under the address, or fails
GenerateEmail ==
    /\ tokPc = "create"
    /\ \/ \E a \in Addresses \ duckAccounts :
            /\ duckAccounts' = duckAccounts \cup {a}
            /\ \/ /\ duck_tokens' = DictSet(duck_tokens, a, <<a, tokSerial + 1>>)
                  /\ tokSerial' = tokSerial + 1
                  /\ storedBy' = Append(storedBy, [attempt |-> tokAttempt, address |-> a])
                  /\ tokEmail' = a
                  /\ tokPc' = "poll"
               \/ /\ tokPc' = "idle"
                  /\ UNCHANGED <<duck_tokens, tokSerial, storedBy, tokEmail>>
       \/ /\ tokPc' = "idle"
          /\ UNCHANGED <<duckAccounts, duck_tokens, tokSerial, storedBy, tokEmail>>
    /\ UNCHANGED <<tokAttempt, lookups>>
    /\ UNCHANGED <<orchVars, authVars, stableVars, otpVars, urlVars, pickVars, csvVars,
                 mailVars, srvVars, runVars, navVars, quotaVars, syncVars,
                 retryVars, glVars>>

\* a lookup that hands out whichever token was stored last
LookupLatestToken ==
    /\ tokPc = "poll"
    /\ lookups' = Append(lookups, [attempt |-> tokAttempt, address |-> tokEmail,
                                   token |-> IF storedBy = <<>> THEN NoToken
                                             ELSE duck_tokens[storedBy[Len(storedBy)].address]])
    /\ tokPc' = "idle"
    /\ UNCHANGED <<duckAccounts, duck_tokens, tokAttempt, tokEmail, tokSerial, storedBy>>
    /\ UNCHANGED <<orchVars, authVars, stableVars, otpVars, urlVars, pickVars, csvVars,
                 mailVars, srvVars, runVars, navVars, quotaVars, syncVars,
                 retryVars, glVars>>

\* line 468: token = self._tokens.get(email), at the head of
\* get_verification_code; the attempt then runs to its end
LookupToken ==
    /\ tokPc = "poll"
    /\ lookups' = Append(lookups, [attempt |-> tokAttempt, address |-> tokEmail,
                                   token |-> DictGet(duck_tokens, tokEmail)])
    /\ tokPc' = "idle"
    /\ UNCHANGED <<duckAccounts, duck_tokens, tokAttempt, tokEmail, tokSerial, storedBy>>
    /\ UNCHANGED <<orchVars, authVars, stableVars, otpVars, urlVars, pickVars, csvVars,
                 mailVars, srvVars, runVars, navVars, quotaVars, syncVars,
                 retryVars, glVars>>

NextTok ==
    \/ BeginAttempt
    \/ GenerateEmail
    \/ LookupToken

SpecTok == InitTok /\ [][NextTok]_vars

\* C24 as stated: the mapping an attempt consults holds no token that was
\* stored for the mailbox of an earlier attempt
C24_NoTokenOfEarlierAttempt ==
    \A i \in 1 .. Len(lookups) : \A s \in 1 .. Len(storedBy) :
        storedBy[s].attempt < lookups[i].attempt => storedBy[s].address \notin DOMAIN duck_tokens

\* C24 amended: the mapping is one dictionary for the whole process and
\* keeps the token of every mailbox created in it; what an attempt gets from
\* it is the token stored under its own mailbox address or nothing, never a
\* token stored for another mailbox, and the mailbox an attempt creates is
\* one no earlier attempt created
C24_TokenLookedUpByOwnMailbox ==
    /\ \A s \in 1 .. Len(storedBy) : storedBy[s].address \in DOMAIN duck_tokens
    /\ \A s, t \in 1 .. Len(storedBy) : s # t => storedBy[s].address # storedBy[t].address
    /\ \A i \in 1 .. Len(lookups) :
          \/ lookups[i].token = NoToken
          \/ lookups[i].token[1] = lookups[i].address

C24_Witness ==
    /\ Len(lookups) = 2 /\ Len(storedBy) = 2
    /\ storedBy[1].attempt = 1 /\ storedBy[2].attempt = 2
    /\ lookups[2].attempt = 2 /\ lookups[2].address = storedBy[2].address
    /\ lookups[2].token = duck_tokens[storedBy[2].address]
    /\ storedBy[1].address \in DOMAIN duck_tokens


(***************************************************************************)
(* The post-login navigation (lines 916-950) taken alone: the wait for the *)
(* platform URL, the visit of backurl or of the profile page, the one      *)
(* retry, and the two authentication checks.                               *)
(***************************************************************************)
\* page.url by the page it names: the passport OTP page, longcat.chat/login,
\* longcat.chat/platform/..., anything else
NavUrls == {"passport", "login", "platform", "other"}

\* the selectors of lines 908-912, in the order they are tried
SubmitSelectors == <<"css:.submit-btn", "css:button[type=submit]", "text:Continue">>

\* cont2 after lines 908-912, given the selectors that find an element: the
\* first of them in the order tried, None when there is none
FindSubmit(found) ==
    IF \E k \in DOMAIN SubmitSelectors : SubmitSelectors[k] \in found
    THEN SubmitSelectors[CHOOSE k \in DOMAIN SubmitSelectors :
                            /\ SubmitSelectors[k] \in found
                            /\ \A m \in 1 .. (k - 1) : SubmitSelectors[m] \notin found]
    ELSE "None"

\* the state after _fill_otp returned True (lines 902-904)
InitNav ==
    /\ navBackurl \in BOOLEAN
    /\ navUrl = "passport"
    /\ navTargets = <<>>
    /\ navPc = "submit"
    /\ cont2 = "pending"
    /\ submitClicks = 0
    /\ navResult = "running"
    /\ firstLanding = "none"
    /\ navAuthCalls = 0
    /\ OrchIdle
    /\ OrchIdleAuth
    /\ StableIdle
    /\ OtpIdle
    /\ UrlIdle
    /\ PickIdle
    /\ CsvIdle
    /\ MailIdle
    /\ SrvIdle
    /\ RunIdle
    /\ TokIdle
    /\ QuotaIdle
    /\ SyncIdle
    /\ RetryIdle
    /\ GlIdle

\* a submit step that looks for the first selector only
NavSubmitFirstSelector ==
    /\ navPc = "submit"
    /\ \E found \in SUBSET {SubmitSelectors[k] : k \in DOMAIN SubmitSelectors} :
          /\ cont2' = FindSubmit(found)
          /\ submitClicks' = IF SubmitSelectors[1] \in found THEN submitClicks + 1
                              ELSE submitClicks
    /\ navUrl' \in NavUrls
    /\ navPc' = "wait_redirect"
    /\ UNCHANGED <<navBackurl, navTargets, navResult, firstLanding, navAuthCalls>>
    /\ UNCHANGED <<orchVars, authVars, stableVars, otpVars, urlVars, pickVars, csvVars,
                 mailVars, srvVars, runVars, tokVars, quotaVars, syncVars,
                 retryVars, glVars>>

\* lines 906-914: look for the submit control by three selectors in turn;
\* if cont2: cont2.click(). The page moves on by the click or by itself.
NavSubmit ==
    /\ navPc = "submit"
    /\ \E found \in SUBSET {SubmitSelectors[k] : k \in DOMAIN SubmitSelectors} :
          cont2' = FindSubmit(found)
    /\ submitClicks' = IF cont2' # "None" THEN submitClicks + 1 ELSE submitClicks
    /\ navUrl' \in NavUrls
    /\ navPc' = "wait_redirect"
    /\ UNCHANGED <<navBackurl, navTargets, navResult, firstLanding, navAuthCalls>>
    /\ UNCHANGED <<orchVars, authVars, stableVars, otpVars, urlVars, pickVars, csvVars,
                 mailVars, srvVars, runVars, tokVars, quotaVars, syncVars,
                 retryVars, glVars>>

\* line 919: _wait_url_contains(page, "longcat.chat/platform", timeout=20);
\* the page may redirect while the wait polls, the answer is not used
NavWaitRedirect ==
    /\ navPc = "wait_redirect"
    /\ navUrl' \in NavUrls
    /\ navPc' = "first_get"
    /\ UNCHANGED <<navBackurl, navTargets, navResult, firstLanding, navAuthCalls,
                   cont2, submitClicks>>
    /\ UNCHANGED <<orchVars, authVars, stableVars, otpVars, urlVars, pickVars, csvVars,
                 mailVars, srvVars, runVars, tokVars, quotaVars, syncVars,
                 retryVars, glVars>>

\* lines 920-929: page.get(backurl) if backurl else page.get(profile), then
\* wait_for_page_stable; an exception of either is swallowed
NavFirstGet ==
    /\ navPc = "first_get"
    /\ navTargets' = Append(navTargets, IF navBackurl THEN "backurl" ELSE "profile")
    /\ navUrl' \in NavUrls
    /\ firstLanding' = navUrl'
    /\ navPc' = "retry_check"
    /\ UNCHANGED <<navBackurl, navResult, navAuthCalls, cont2, submitClicks>>
    /\ UNCHANGED <<orchVars, authVars, stableVars, otpVars, urlVars, pickVars, csvVars,
                 mailVars, srvVars, runVars, tokVars, quotaVars, syncVars,
                 retryVars, glVars>>

\* a retry that is made without a backurl as well, with the profile page
NavRetryAnyTarget ==
    /\ navPc = "retry_check"
    /\ IF navUrl = "login"
       THEN /\ navTargets' = Append(navTargets, IF navBackurl THEN "backurl" ELSE "profile")
            /\ navUrl' \in NavUrls
       ELSE UNCHANGED <<navTargets, navUrl>>
    /\ navPc' = "auth_gate"
    /\ UNCHANGED <<navBackurl, navResult, firstLanding, navAuthCalls, cont2, submitClicks>>
    /\ UNCHANGED <<orchVars, authVars, stableVars, otpVars, urlVars, pickVars, csvVars,
                 mailVars, srvVars, runVars, tokVars, quotaVars, syncVars,
                 retryVars, glVars>>

\* lines 931-939: if "longcat.chat/login" in (page.url or "") and backurl:
\* page.get(backurl) once more, exceptions swallowed
NavRetry ==
    /\ navPc = "retry_check"
    /\ IF navUrl = "login" /\ navBackurl
       THEN /\ navTargets' = Append(navTargets, "backurl")
            /\ navUrl' \in NavUrls
       ELSE UNCHANGED <<navTargets, navUrl>>
    /\ navPc' = "auth_gate"
    /\ UNCHANGED <<navBackurl, navResult, firstLanding, navAuthCalls, cont2, submitClicks>>
    /\ UNCHANGED <<orchVars, authVars, stableVars, otpVars, urlVars, pickVars, csvVars,
                 mailVars, srvVars, runVars, tokVars, quotaVars, syncVars,
                 retryVars, glVars>>

\* lines 941-946: when the wait does not see the platform URL, the verifier
\* decides; a denial raises "SSO failed / fallback login"
NavAuthGate ==
    /\ navPc = "auth_gate"
    /\ navUrl' \in NavUrls
    /\ IF navUrl' = "platform"
       THEN navPc' = "final_auth" /\ UNCHANGED <<navResult, navAuthCalls>>
       ELSE /\ navAuthCalls' = navAuthCalls + 1
            /\ \/ navPc' = "final_auth" /\ UNCHANGED navResult
               \/ navPc' = "done" /\ navResult' \in {"sso_failed", "verifier_raised"}
    /\ UNCHANGED <<navBackurl, navTargets, firstLanding, cont2, submitClicks>>
    /\ UNCHANGED <<orchVars, authVars, stableVars, otpVars, urlVars, pickVars, csvVars,
                 mailVars, srvVars, runVars, tokVars, quotaVars, syncVars,
                 retryVars, glVars>>

\* lines 948-950: the final check before the key is created
NavFinalAuth ==
    /\ navPc = "final_auth"
    /\ navAuthCalls' = navAuthCalls + 1
    /\ navResult' \in {"authenticated", "user_current_failed", "verifier_raised"}
    /\ navPc' = "done"
    /\ UNCHANGED <<navBackurl, navUrl, navTargets, firstLanding, cont2, submitClicks>>
    /\ UNCHANGED <<orchVars, authVars, stableVars, otpVars, urlVars, pickVars, csvVars,
                 mailVars, srvVars, runVars, tokVars, quotaVars, syncVars,
                 retryVars, glVars>>

NextNav ==
    \/ NavSubmit
    \/ NavWaitRedirect
    \/ NavFirstGet
    \/ NavRetry
    \/ NavAuthGate
    \/ NavFinalAuth

SpecNav == InitNav /\ [][NextNav]_vars

NavFailed == navResult \in {"sso_failed", "user_current_failed"}

\* the navigation is past the retry of lines 933-939
PastRetry == navPc \in {"auth_gate", "final_auth", "done"}

\* C28 as stated: with or without a backurl, a first navigation that lands
\* on the login page is followed by exactly one more navigation before the
\* attempt can fail as not authenticated
C28_LoginLandingRetriedOnce ==
    /\ Len(navTargets) <= 2
    /\ (PastRetry /\ firstLanding = "login") => Len(navTargets) = 2

\* C28: with a backurl, a first navigation that lands on the login page is
\* followed by exactly one more visit of backurl, and only then can the
\* attempt fail as not authenticated; without a backurl the profile page is
\* visited once and never again
C28_BackurlRetriedOnce ==
    /\ Len(navTargets) <= 2
    /\ PastRetry =>
          navTargets = IF ~navBackurl THEN <<"profile">>
                       ELSE IF firstLanding = "login" THEN <<"backurl", "backurl">>
                       ELSE <<"backurl">>
    /\ NavFailed => PastRetry

C28_Witness ==
    /\ navResult = "sso_failed"
    /\ navBackurl
    /\ firstLanding = "login"
    /\ navTargets = <<"backurl", "backurl">>

\* without a backurl the attempt fails after the one visit of the profile page
C28_WitnessProfile ==
    /\ NavFailed
    /\ ~navBackurl
    /\ firstLanding = "login"
    /\ navTargets = <<"profile">>

\* the orchestrator is past the submit step: waiting for the redirect or later
PastSubmit == navPc # "submit"

\* C31 as stated: the orchestrator never goes on to the redirect wait
\* without having activated the submit control
C31_SubmitAlwaysActivated ==
    PastSubmit => submitClicks = 1

\* C31: the submit control is activated once, before the redirect wait and
\* before any navigation, whenever one of the three selectors finds it; when
\* none does, the orchestrator goes on to the redirect wait without a click
C31_SubmitActivatedWhenFound ==
    /\ ~PastSubmit => (submitClicks = 0 /\ navTargets = <<>>)
    /\ PastSubmit => /\ cont2 # "pending"
                     /\ submitClicks = IF cont2 # "None" THEN 1 ELSE 0

\* the control was found by the last selector only, and clicked
C31_Witness ==
    /\ navTargets # <<>>
    /\ cont2 = "text:Continue"
    /\ submitClicks = 1

C31_WitnessNotFound ==
    /\ navTargets # <<>>
    /\ cont2 = "None"
    /\ submitClicks = 0

(***************************************************************************)
(* apply_more_quota from the moment the form is open (lines 1700-2072):    *)
(* the script that fills the form and submits it, the branch on what the   *)
(* script reported, and the confirmation.                                  *)
(***************************************************************************)
MaxProbes == 2        \* rounds of the 12 s confirmation loop explored

\* the error texts of lines 2026-2047 and 2071
ErrScript == "script error"
ErrIndustry == "industry field not selected"
ErrScenario == "usage scenario field not found/filled"
ErrAgreement == "agreement checkbox not found/clicked"
ErrDisabled == "submit button disabled (required fields missing or UI not updated yet)"
ErrNoSubmit == "submit button not found/clicked"
ErrNotConfirmed == "quota submit not confirmed"

\* the pages the script can meet: whether an industry can be selected, a
\* scenario filled, the agreement checked; the submit button ("absent",
\* "disabled", "enabled", or "throws" for one whose click() throws); and how
\* the script itself ends ("ok", "throws" inside its try, "run_js_raises",
\* "none" when run_js gives nothing back)
QuotaPages ==
    [industry : BOOLEAN, scenario : BOOLEAN, agreement : BOOLEAN,
     button : {"absent", "disabled", "enabled", "throws"},
     script : {"ok", "throws", "run_js_raises", "none"}]

\* the script's booleans, as the texts "true" and "false"; None is "null"
JsBool(b) == IF b THEN "true" ELSE "false"

\* a script that clicks the submit button whatever it reports
FormScriptClickAlways(p) ==
    CASE p.script = "run_js_raises" -> [error |-> ErrScript]
      [] p.script = "throws" -> [error |-> ErrScript]
      [] p.script = "none" -> <<>>
      [] OTHER ->
           [okIndustry |-> JsBool(p.industry), okScenario |-> JsBool(p.scenario),
            agreed |-> JsBool(p.agreement),
            submitted |-> JsBool(p.button \in {"enabled", "disabled"}),
            submitDisabled |-> IF p.button = "absent" THEN "null"
                               ELSE IF p.button = "disabled" THEN "true" ELSE "false"]

\* lines 1703-2020: the script's own result (lines 2002-2010), its catch
\* clause (line 2012), the except clause of line 2019, and `or {}`
FormScript(p) ==
    CASE p.script = "run_js_raises" -> [error |-> ErrScript]
      [] p.script = "throws" -> [error |-> ErrScript]
      [] p.script = "none" -> <<>>
      [] OTHER ->
           [okIndustry |-> JsBool(p.industry), okScenario |-> JsBool(p.scenario),
            agreed |-> JsBool(p.agreement),
            submitted |-> JsBool(p.button = "enabled"),
            submitDisabled |-> IF p.button = "absent" THEN "null"
                               ELSE IF p.button = "disabled" THEN "true" ELSE "false"]

\* dict.get(key) with Python None as "null"
FormGet(f, key) == IF key \in DOMAIN f THEN f[key] ELSE "null"

\* lines 2025-2047: the return before the confirmation, <<>> when there is none
EarlyReturn(f) ==
    IF FormGet(f, "error") # "null" THEN [ok |-> FALSE, error |-> f.error]
    ELSE IF FormGet(f, "submitted") # "true"
    THEN IF FormGet(f, "okIndustry") = "false" THEN [ok |-> FALSE, error |-> ErrIndustry]
         ELSE IF FormGet(f, "okScenario") = "false" THEN [ok |-> FALSE, error |-> ErrScenario]
         ELSE IF FormGet(f, "agreed") = "false" THEN [ok |-> FALSE, error |-> ErrAgreement]
         ELSE IF FormGet(f, "submitDisabled") = "true" THEN [ok |-> FALSE, error |-> ErrDisabled]
         ELSE [ok |-> FALSE, error |-> ErrNoSubmit]
    ELSE <<>>

InitQuota ==
    /\ quotaPage \in QuotaPages
    /\ form_result = <<>>
    /\ quotaClicked = "no"
    /\ quotaPc = "script"
    /\ quotaProbes = 0
    /\ quotaConfirmed = "no"
    /\ quotaReturn = <<>>
    /\ OrchIdle
    /\ OrchIdleAuth
    /\ StableIdle
    /\ OtpIdle
    /\ UrlIdle
    /\ PickIdle
    /\ CsvIdle
    /\ MailIdle
    /\ SrvIdle
    /\ RunIdle
    /\ TokIdle
    /\ NavIdle
    /\ SyncIdle
    /\ RetryIdle
    /\ GlIdle

\* lines 2017-2023: form_result = page.run_js(js, timeout=8) or {}
RunFormScript ==
    /\ quotaPc = "script"
    /\ form_result' = FormScript(quotaPage)
    /\ quotaClicked' = IF FormGet(form_result', "submitted") = "true" THEN quotaPage.button
                       ELSE "no"
    /\ quotaPc' = "branch"
    /\ UNCHANGED <<quotaPage, quotaProbes, quotaConfirmed, quotaReturn>>
    /\ UNCHANGED <<orchVars, authVars, stableVars, otpVars, urlVars, pickVars, csvVars,
                 mailVars, srvVars, runVars, tokVars, navVars, syncVars,
                 retryVars, glVars>>

\* lines 2025-2047
BranchOnForm ==
    /\ quotaPc = "branch"
    /\ IF EarlyReturn(form_result) # <<>>
       THEN quotaReturn' = EarlyReturn(form_result) /\ quotaPc' = "done"
       ELSE quotaPc' = "toast" /\ UNCHANGED quotaReturn
    /\ UNCHANGED <<quotaPage, form_result, quotaClicked, quotaProbes, quotaConfirmed>>
    /\ UNCHANGED <<orchVars, authVars, stableVars, otpVars, urlVars, pickVars, csvVars,
                 mailVars, srvVars, runVars, tokVars, navVars, syncVars,
                 retryVars, glVars>>

\* lines 2049-2055: one of the two success texts is found, or neither
WaitSuccessText ==
    /\ quotaPc = "toast"
    /\ \/ quotaConfirmed' = "toast" /\ quotaPc' = "return"
       \/ quotaPc' = "probe" /\ UNCHANGED quotaConfirmed
    /\ UNCHANGED <<quotaPage, form_result, quotaClicked, quotaProbes, quotaReturn>>
    /\ UNCHANGED <<orchVars, authVars, stableVars, otpVars, urlVars, pickVars, csvVars,
                 mailVars, srvVars, runVars, tokVars, navVars, syncVars,
                 retryVars, glVars>>

\* lines 2057-2063: one round of the 12 s loop: the form is gone, or still
\* there; the loop ends when the time is up
ProbeForm ==
    /\ quotaPc = "probe"
    /\ \/ /\ quotaProbes < MaxProbes
          /\ quotaProbes' = quotaProbes + 1
          /\ \/ quotaConfirmed' = "gone" /\ quotaPc' = "return"
             \/ UNCHANGED <<quotaConfirmed, quotaPc>>
       \/ quotaPc' = "return" /\ UNCHANGED <<quotaProbes, quotaConfirmed>>
    /\ UNCHANGED <<quotaPage, form_result, quotaClicked, quotaReturn>>
    /\ UNCHANGED <<orchVars, authVars, stableVars, otpVars, urlVars, pickVars, csvVars,
                 mailVars, srvVars, runVars, tokVars, navVars, syncVars,
                 retryVars, glVars>>

\* lines 2065-2072
ReturnConfirmation ==
    /\ quotaPc = "return"
    /\ quotaReturn' = IF quotaConfirmed # "no" THEN [ok |-> TRUE, error |-> ""]
                      ELSE [ok |-> FALSE,
                            error |-> IF FormGet(form_result, "error") # "null"
                                      THEN form_result.error ELSE ErrNotConfirmed]
    /\ quotaPc' = "done"
    /\ UNCHANGED <<quotaPage, form_result, quotaClicked, quotaProbes, quotaConfirmed>>
    /\ UNCHANGED <<orchVars, authVars, stableVars, otpVars, urlVars, pickVars, csvVars,
                 mailVars, srvVars, runVars, tokVars, navVars, syncVars,
                 retryVars, glVars>>

NextQuota ==
    \/ RunFormScript
    \/ BranchOnForm
    \/ WaitSuccessText
    \/ ProbeForm
    \/ ReturnConfirmation

SpecQuota == InitQuota /\ [][NextQuota]_vars

\* the first of the five reasons that applies to the page
FirstReason ==
    IF ~quotaPage.industry THEN ErrIndustry
    ELSE IF ~quotaPage.scenario THEN ErrScenario
    ELSE IF ~quotaPage.agreement THEN ErrAgreement
    ELSE IF quotaPage.button = "disabled" THEN ErrDisabled
    ELSE ErrNoSubmit

SubmitGuarded == quotaClicked \in {"no", "enabled"}

OkOnlyConfirmed ==
    (quotaPc = "done" /\ quotaReturn.ok) =>
        (quotaClicked = "enabled" /\ quotaConfirmed \in {"toast", "gone"})

C33_WitnessOk ==
    /\ quotaPc = "done"
    /\ quotaReturn.ok
    /\ quotaConfirmed = "gone"
    /\ quotaProbes = MaxProbes

(***************************************************************************)
(* sync_keys_to_gpt_load (src/gpt_load_sync.py lines 269-357): calls made  *)
(* one after the other on one state file. A key is a text; its hash is the *)
(* key tagged, so that different keys have different hashes.               *)
(***************************************************************************)
MaxSyncs == 2         \* calls of sync_keys_to_gpt_load explored
MaxKeys == 2          \* longest list of keys handed to one call
MaxStatusPolls == 2   \* get_task_status calls before the poll deadline

\* the texts handed in as keys: blank, a key with a space before it, a key
KeyTexts == {"", " k1", "k2"}

\* (k or "").strip() on these texts
KeyStrip(k) == IF k = " k1" THEN "k1" ELSE k

\* lines 37-38
sha256_hex(k) == <<"sha256", k>>

\* lines 75-83
RECURSIVE dedupe_keep_order(_)
dedupe_keep_order(items) ==
    IF items = <<>> THEN <<>>
    ELSE LET init == dedupe_keep_order(SubSeq(items, 1, Len(items) - 1))
             it == items[Len(items)]
         IN  IF \E j \in 1 .. Len(init) : init[j] = it THEN init ELSE Append(init, it)

\* line 294: the stripped, non-empty keys, each once
KeysList(keys) ==
    LET stripped == [j \in 1 .. Len(keys) |-> KeyStrip(keys[j])]
        NonEmpty(k) == k # ""
    IN  dedupe_keep_order(SelectSeq(stripped, NonEmpty))

\* lines 91-99: the set of the non-empty lines
load_state_hashes(file) == {file[j] : j \in 1 .. Len(file)}

\* lines 102-111
append_state_hashes(file, hashes) == file \o hashes

\* a choice of new keys that leaves the state file out
NewKeysIgnoreState(keys_list, force, file) == keys_list

\* lines 299-307
NewKeys(keys_list, force, file) ==
    LET old_hashes == IF force THEN {} ELSE load_state_hashes(file)
        IsNew(k) == force \/ sha256_hex(k) \notin old_hashes
    IN  SelectSeq(keys_list, IsNew)

\* a mark that is also made when the poll ran out of time
ShouldMarkSyncedOnTimeout(poll, fs) == (~poll) \/ fs = "None" \/ fs = ""

\* line 336
ShouldMarkSynced(poll, fs) == (~poll) \/ (fs # "None" /\ fs = "")

SyncKeyLists == UNION {[1 .. n -> KeyTexts] : n \in 0 .. MaxKeys}

InitSync ==
    /\ stateFile = <<>>
    /\ syncCallNo = 0
    /\ syncArgs = <<>>
    /\ new_keys = <<>>
    /\ syncPc = "idle"
    /\ final_status = "None"
    /\ statusPolls = 0
    /\ requests = <<>>
    /\ syncOut = <<>>
    /\ stateBefore = <<>>
    /\ recordedEarlier = {}
    /\ OrchIdle
    /\ OrchIdleAuth
    /\ StableIdle
    /\ OtpIdle
    /\ UrlIdle
    /\ PickIdle
    /\ CsvIdle
    /\ MailIdle
    /\ SrvIdle
    /\ RunIdle
    /\ TokIdle
    /\ NavIdle
    /\ QuotaIdle
    /\ RetryIdle
    /\ GlIdle

Hashes(ks) == [j \in 1 .. Len(ks) |-> sha256_hex(ks[j])]
KeySet(ks) == {ks[j] : j \in 1 .. Len(ks)}

\* lines 287-310: the keys are cleaned, the state file is read, and the call
\* returns at once when nothing is left to send
SyncBegin ==
    /\ syncPc = "idle"
    /\ syncCallNo < MaxSyncs
    /\ syncCallNo' = syncCallNo + 1
    /\ \E ks \in SyncKeyLists, f \in BOOLEAN, p \in BOOLEAN :
          syncArgs' = [keys |-> ks, force |-> f, poll |-> p]
    /\ stateBefore' = stateFile
    /\ recordedEarlier' = {k \in KeySet(KeysList(syncArgs'.keys)) :
                              sha256_hex(k) \in load_state_hashes(stateFile)}
    /\ requests' = <<>>
    /\ final_status' = "None"
    /\ statusPolls' = 0
    /\ LET keys_list == KeysList(syncArgs'.keys)
           nk == NewKeys(keys_list, syncArgs'.force, stateFile)
       IN  /\ new_keys' = nk
           /\ IF keys_list = <<>>
              THEN /\ syncOut' = [sent |-> 0, skipped |-> 0, reason |-> "no_keys", error |-> ""]
                   /\ syncPc' = "idle"
              ELSE IF nk = <<>>
              THEN /\ syncOut' = [sent |-> 0, skipped |-> Len(keys_list),
                                  reason |-> "already_synced", error |-> ""]
                   /\ syncPc' = "idle"
              ELSE /\ syncOut' = <<>>
                   /\ syncPc' = "resolve"
    /\ UNCHANGED stateFile
    /\ UNCHANGED <<orchVars, authVars, stableVars, otpVars, urlVars, pickVars, csvVars,
                 mailVars, srvVars, runVars, tokVars, navVars, quotaVars,
                 retryVars, glVars>>

\* lines 312-313: client.resolve_group_id: the group's id, or it raises
ResolveGroup ==
    /\ syncPc = "resolve"
    /\ requests' = Append(requests, <<"GET /api/groups">>)
    /\ \/ syncPc' = "add" /\ UNCHANGED syncOut
       \/ syncPc' = "idle" /\ syncOut' = [raised |-> "GptLoadSyncError"]
    /\ UNCHANGED <<stateFile, syncCallNo, syncArgs, new_keys, final_status, statusPolls,
                   stateBefore, recordedEarlier>>
    /\ UNCHANGED <<orchVars, authVars, stableVars, otpVars, urlVars, pickVars, csvVars,
                 mailVars, srvVars, runVars, tokVars, navVars, quotaVars,
                 retryVars, glVars>>

\* lines 315-322: client.add_keys_async(group_id, keys_text): accepted, or it raises
AddKeys ==
    /\ syncPc = "add"
    /\ requests' = Append(requests, <<"POST /api/keys/add-async", new_keys>>)
    /\ \/ syncPc' = (IF syncArgs.poll THEN "poll" ELSE "mark") /\ UNCHANGED syncOut
       \/ syncPc' = "idle" /\ syncOut' = [raised |-> "GptLoadSyncError"]
    /\ UNCHANGED <<stateFile, syncCallNo, syncArgs, new_keys, final_status, statusPolls,
                   stateBefore, recordedEarlier>>
    /\ UNCHANGED <<orchVars, authVars, stableVars, otpVars, urlVars, pickVars, csvVars,
                 mailVars, srvVars, runVars, tokVars, navVars, quotaVars,
                 retryVars, glVars>>

\* lines 324-332: one round of the poll loop: the task is running, or it is
\* not (with or without an error), or get_task_status raises; the loop also
\* ends when the deadline has passed
PollTask ==
    /\ syncPc = "poll"
    /\ \/ /\ statusPolls < MaxStatusPolls
          /\ statusPolls' = statusPolls + 1
          /\ requests' = Append(requests, <<"GET /api/tasks/status">>)
          /\ \/ UNCHANGED <<syncPc, final_status, syncOut>>
             \/ /\ final_status' \in {"", "import failed"}
                /\ syncPc' = "mark"
                /\ UNCHANGED syncOut
             \/ /\ syncPc' = "idle"
                /\ syncOut' = [raised |-> "GptLoadSyncError"]
                /\ UNCHANGED final_status
       \/ /\ syncPc' = "mark"
          /\ UNCHANGED <<statusPolls, requests, final_status, syncOut>>
    /\ UNCHANGED <<stateFile, syncCallNo, syncArgs, new_keys, stateBefore, recordedEarlier>>
    /\ UNCHANGED <<orchVars, authVars, stableVars, otpVars, urlVars, pickVars, csvVars,
                 mailVars, srvVars, runVars, tokVars, navVars, quotaVars,
                 retryVars, glVars>>

\* lines 334-357: the hashes are appended when the import is taken as done,
\* and the result is put together
MarkAndReturn ==
    /\ syncPc = "mark"
    /\ stateFile' = IF ShouldMarkSynced(syncArgs.poll, final_status)
                    THEN append_state_hashes(stateFile, Hashes(new_keys))
                    ELSE stateFile
    /\ syncOut' = [sent |-> Len(new_keys),
                   skipped |-> Len(KeysList(syncArgs.keys)) - Len(new_keys),
                   reason |-> "",
                   error |-> IF final_status # "None" THEN final_status
                             ELSE IF syncArgs.poll THEN "poll_timeout" ELSE ""]
    /\ syncPc' = "idle"
    /\ UNCHANGED <<syncCallNo, syncArgs, new_keys, final_status, statusPolls, requests,
                   stateBefore, recordedEarlier>>
    /\ UNCHANGED <<orchVars, authVars, stableVars, otpVars, urlVars, pickVars, csvVars,
                 mailVars, srvVars, runVars, tokVars, navVars, quotaVars,
                 retryVars, glVars>>

NextSync ==
    \/ SyncBegin
    \/ ResolveGroup
    \/ AddKeys
    \/ PollTask
    \/ MarkAndReturn

SpecSync == InitSync /\ [][NextSync]_vars

\* the call in progress has ended
SyncEnded == syncPc = "idle" /\ syncCallNo > 0

AddAccepted ==
    \E j \in 1 .. Len(requests) :
        /\ requests[j][1] = "POST /api/keys/add-async"
        /\ (j < Len(requests) \/ "raised" \notin DOMAIN syncOut)

C34_WitnessTimeout ==
    /\ SyncEnded
    /\ syncOut = [sent |-> 1, skipped |-> 0, reason |-> "", error |-> "poll_timeout"]
    /\ stateFile = stateBefore

SentKeys ==
    UNION {KeySet(requests[j][2]) : j \in {i \in 1 .. Len(requests) :
                                             requests[i][1] = "POST /api/keys/add-async"}}

RetryLimit == 3       \* largest `retries` explored (the callers pass 3)

Endpoints == {"list_groups", "add_keys_async", "get_task_status"}

\* what one request meets: no connection (URLError), or an HTTP status with
\* the code field of the body (0 when the body has code 0, 1 otherwise, 2
\* when the body is not JSON at all)
Responses ==
    {[status |-> 0, code |-> 0]}
        \cup [status : {200, 404, 429, 500, 503}, code : {0, 1, 2}]
ServerErrorFrom == 500    \* status >= 500
TooManyRequests == 429    \* status in (429,)
HttpOk == 200             \* status != 200

\* the status as it stands in the message of the error raised
StatusText(n) ==
    CASE n = 200 -> "200" [] n = 404 -> "404" [] n = 429 -> "429"
      [] n = 500 -> "500" [] n = 503 -> "503" [] OTHER -> "other"

NoFailure == <<"None", "">>

\* a closure for which 429 is retryable at every endpoint
DoRetry429Everywhere(e, r) ==
    IF r.status = 0 THEN <<"_RetryableError", "URLError">>
    ELSE IF r.status = HttpOk /\ r.code = 2 THEN <<"ValueError", "body">>
    ELSE IF r.status = TooManyRequests \/ r.status >= ServerErrorFrom
    THEN <<"_RetryableError", StatusText(r.status)>>
    ELSE IF r.status # HttpOk THEN <<"GptLoadSyncError", StatusText(r.status)>>
    ELSE IF r.code # 0 THEN <<"GptLoadSyncError", "code">>
    ELSE <<"result", e>>

\* lines 145-146 with 199-208, 237-248, 255-264: what fn() ends with
Do(e, r) ==
    IF r.status = 0 THEN <<"_RetryableError", "URLError">>
    ELSE IF r.status = HttpOk /\ r.code = 2 THEN <<"ValueError", "body">>
    ELSE IF (e = "add_keys_async" /\ r.status = TooManyRequests) \/ r.status >= ServerErrorFrom
    THEN <<"_RetryableError", StatusText(r.status)>>
    ELSE IF r.status # HttpOk THEN <<"GptLoadSyncError", StatusText(r.status)>>
    ELSE IF r.code # 0 THEN <<"GptLoadSyncError", "code">>
    ELSE <<"result", e>>

InitRetry ==
    /\ endpoint \in Endpoints
    /\ retries \in 0 .. RetryLimit
    /\ retryAttempt = 0
    /\ fnCalls = <<>>
    /\ retryLast = NoFailure
    /\ retryPc = "loop"
    /\ retryEnd = <<"running", "">>
    /\ OrchIdle
    /\ OrchIdleAuth
    /\ StableIdle
    /\ OtpIdle
    /\ UrlIdle
    /\ PickIdle
    /\ CsvIdle
    /\ MailIdle
    /\ SrvIdle
    /\ RunIdle
    /\ TokIdle
    /\ NavIdle
    /\ QuotaIdle
    /\ SyncIdle
    /\ GlIdle

\* a round that catches every exception of fn()
RetryRoundCatchAll ==
    /\ retryPc = "loop"
    /\ retryAttempt < retries
    /\ \E r \in Responses :
          LET out == Do(endpoint, r) IN
          /\ fnCalls' = Append(fnCalls, out)
          /\ IF out[1] = "result"
             THEN /\ retryEnd' = <<"returned", out>>
                  /\ retryPc' = "done"
                  /\ UNCHANGED <<retryLast, retryAttempt>>
             ELSE /\ retryLast' = out
                  /\ retryAttempt' = retryAttempt + 1
                  /\ UNCHANGED <<retryEnd, retryPc>>
    /\ UNCHANGED <<endpoint, retries>>
    /\ UNCHANGED <<orchVars, authVars, stableVars, otpVars, urlVars, pickVars, csvVars,
                 mailVars, srvVars, runVars, tokVars, navVars, quotaVars,
                 syncVars, glVars>>

\* lines 151-157: one round of `for attempt in range(retries)`
RetryRound ==
    /\ retryPc = "loop"
    /\ retryAttempt < retries
    /\ \E r \in Responses :
          LET out == Do(endpoint, r) IN
          /\ fnCalls' = Append(fnCalls, out)
          /\ CASE out[1] = "result" ->
                    /\ retryEnd' = <<"returned", out>>
                    /\ retryPc' = "done"
                    /\ UNCHANGED <<retryLast, retryAttempt>>
               [] out[1] = "_RetryableError" ->
                    /\ retryLast' = out
                    /\ retryAttempt' = retryAttempt + 1
                    /\ UNCHANGED <<retryEnd, retryPc>>
               [] OTHER ->
                    /\ retryEnd' = <<"raised", out>>
                    /\ retryPc' = "done"
                    /\ UNCHANGED <<retryLast, retryAttempt>>
    /\ UNCHANGED <<endpoint, retries>>
    /\ UNCHANGED <<orchVars, authVars, stableVars, otpVars, urlVars, pickVars, csvVars,
                 mailVars, srvVars, runVars, tokVars, navVars, quotaVars,
                 syncVars, glVars>>

\* lines 158-160: after the loop
RetryGiveUp ==
    /\ retryPc = "loop"
    /\ retryAttempt >= retries
    /\ retryEnd' = IF retryLast # NoFailure THEN <<"raised", retryLast>>
                   ELSE <<"raised", <<"RuntimeError", "unreachable">>>>
    /\ retryPc' = "done"
    /\ UNCHANGED <<endpoint, retries, retryAttempt, fnCalls, retryLast>>
    /\ UNCHANGED <<orchVars, authVars, stableVars, otpVars, urlVars, pickVars, csvVars,
                 mailVars, srvVars, runVars, tokVars, navVars, quotaVars,
                 syncVars, glVars>>

NextRetry ==
    \/ RetryRound
    \/ RetryGiveUp

SpecRetry == InitRetry /\ [][NextRetry]_vars

Retryable(out) == out[1] = "_RetryableError"

\* C36: fn is called at most `retries` times, and again only after a
\* retryable failure (no connection, a status from 500, or 429 at
\* add_keys_async); the first result is returned and a GptLoadSyncError
\* is raised at once, each without a further call; after `retries`
\* retryable failures the last of them is raised
C36_RetryOnlyAfterRetryableFailure ==
    /\ Len(fnCalls) <= retries
    /\ \A j \in 1 .. (Len(fnCalls) - 1) : Retryable(fnCalls[j])
    /\ \A j \in 1 .. Len(fnCalls) :
          Retryable(fnCalls[j]) <=>
             \/ fnCalls[j][2] = "URLError"
             \/ fnCalls[j][2] \in {"500", "503"}
             \/ fnCalls[j][2] = "429" /\ endpoint = "add_keys_async"
    /\ (retryPc = "loop" /\ fnCalls # <<>>) => Retryable(fnCalls[Len(fnCalls)])
    /\ retryPc = "done" =>
          IF fnCalls # <<>> /\ ~Retryable(fnCalls[Len(fnCalls)])
          THEN retryEnd = <<IF fnCalls[Len(fnCalls)][1] = "result" THEN "returned"
                            ELSE "raised", fnCalls[Len(fnCalls)]>>
          ELSE /\ Len(fnCalls) = retries
               /\ retryEnd = IF retries = 0
                             THEN <<"raised", <<"RuntimeError", "unreachable">>>>
                             ELSE <<"raised", fnCalls[Len(fnCalls)]>>

\* list_groups met 429, a GptLoadSyncError there, on its third call
C36_Witness ==
    /\ retryPc = "done"
    /\ endpoint = "list_groups"
    /\ retries = 3
    /\ Len(fnCalls) = 3
    /\ retryEnd = <<"raised", <<"GptLoadSyncError", "429">>>>

C36_WitnessExhausted ==
    /\ retryPc = "done"
    /\ retries = 3
    /\ retryEnd = <<"raised", <<"_RetryableError", "429">>>>

(***************************************************************************)
(* hf_server.py: the gpt-load child process. _start_gpt_load_once (lines   *)
(* 142-190), _restart_gpt_load (213-246), _gpt_load_watchdog_loop          *)
(* (269-288), Handler._proxy_to_gpt_load (429-521) and the threads of      *)
(* main (626-627). A block under `with GPT_LOAD.lock` is one step.         *)
(***************************************************************************)
MaxLaunches == 2         \* processes launched at most
MaxWatchdogRounds == 7   \* entries of wdLog after which no probe is explored
FailLimit == 3           \* fail >= 3

GlThreads == {"init", "watchdog", "handler", "restarter"}
Restarting == {"watchdog", "restarter"}

InitGl ==
    /\ glPc = [t \in GlThreads |->
                 CASE t = "init" -> "start_once"
                   [] t = "watchdog" -> "probe"
                   [] OTHER -> "idle"]
    /\ glProc = 0 /\ alive = {} /\ launched = 0
    /\ old = [t \in Restarting |-> 0]
    /\ cooling = FALSE /\ wdFail = 0 /\ wdLog = <<>>
    /\ OrchIdle
    /\ OrchIdleAuth
    /\ StableIdle
    /\ OtpIdle
    /\ UrlIdle
    /\ PickIdle
    /\ CsvIdle
    /\ MailIdle
    /\ SrvIdle
    /\ RunIdle
    /\ TokIdle
    /\ NavIdle
    /\ QuotaIdle
    /\ SyncIdle
    /\ RetryIdle

\* line 150: GPT_LOAD.proc is not None and GPT_LOAD.proc.poll() is None
ProcRunning == glProc # 0 /\ glProc \in alive

\* where a thread goes on when _start_gpt_load_once has returned
AfterStart(t) ==
    CASE t = "init" -> "done"
      [] t = "watchdog" -> "reset"
      [] t = "handler" -> "proxy"
      [] OTHER -> "idle"

\* where a thread goes on when _restart_gpt_load returns at line 220
AfterRestart(t) == IF t = "watchdog" THEN "reset" ELSE "idle"

\* lines 149-188: nothing when the process runs; otherwise Popen, which
\* gives a new process or raises
StartGptLoadOnce(t) ==
    /\ glPc[t] = "start_once"
    /\ IF ProcRunning
       THEN UNCHANGED <<glProc, alive, launched>>
       ELSE \/ /\ launched < MaxLaunches
               /\ launched' = launched + 1
               /\ glProc' = launched + 1
               /\ alive' = alive \cup {launched + 1}
            \/ /\ glProc' = 0
               /\ UNCHANGED <<alive, launched>>
    /\ glPc' = [glPc EXCEPT ![t] = AfterStart(t)]
    /\ UNCHANGED <<old, cooling, wdFail, wdLog>>
    /\ UNCHANGED <<orchVars, authVars, stableVars, otpVars, urlVars, pickVars, csvVars,
                 mailVars, srvVars, runVars, tokVars, navVars, quotaVars,
                 syncVars, retryVars>>

\* lines 217-231: the cooldown, then GPT_LOAD.proc is taken out
RestartTakeProc(t) ==
    /\ glPc[t] = "restart"
    /\ IF cooling
       THEN /\ glPc' = [glPc EXCEPT ![t] = AfterRestart(t)]
            /\ UNCHANGED <<glProc, old, cooling>>
       ELSE /\ cooling' = TRUE
            /\ old' = [old EXCEPT ![t] = IF ProcRunning THEN glProc ELSE 0]
            /\ glProc' = 0
            /\ glPc' = [glPc EXCEPT ![t] = "terminate"]
    /\ UNCHANGED <<alive, launched, wdFail, wdLog>>
    /\ UNCHANGED <<orchVars, authVars, stableVars, otpVars, urlVars, pickVars, csvVars,
                 mailVars, srvVars, runVars, tokVars, navVars, quotaVars,
                 syncVars, retryVars>>

\* lines 233-246 and 193-210: the old process is terminated, or killed after
\* 3 s, outside the lock; then _start_gpt_load_once is called
RestartTerminateOld(t) ==
    /\ glPc[t] = "terminate"
    /\ alive' = alive \ {old[t]}
    /\ old' = [old EXCEPT ![t] = 0]
    /\ glPc' = [glPc EXCEPT ![t] = "start_once"]
    /\ UNCHANGED <<glProc, launched, cooling, wdFail, wdLog>>
    /\ UNCHANGED <<orchVars, authVars, stableVars, otpVars, urlVars, pickVars, csvVars,
                 mailVars, srvVars, runVars, tokVars, navVars, quotaVars,
                 syncVars, retryVars>>

\* line 219: GPT_LOAD_RESTART_COOLDOWN_S have passed since the last restart
CooldownPasses ==
    /\ cooling
    /\ cooling' = FALSE
    /\ UNCHANGED <<glPc, glProc, alive, launched, old, wdFail, wdLog>>
    /\ UNCHANGED <<orchVars, authVars, stableVars, otpVars, urlVars, pickVars, csvVars,
                 mailVars, srvVars, runVars, tokVars, navVars, quotaVars,
                 syncVars, retryVars>>

\* a gpt-load process exits by itself
ProcExits(p) ==
    /\ p \in alive
    /\ alive' = alive \ {p}
    /\ UNCHANGED <<glPc, glProc, launched, old, cooling, wdFail, wdLog>>
    /\ UNCHANGED <<orchVars, authVars, stableVars, otpVars, urlVars, pickVars, csvVars,
                 mailVars, srvVars, runVars, tokVars, navVars, quotaVars,
                 syncVars, retryVars>>

\* lines 523-527 and 429-430: a request that is proxied arrives
ProxyRequest ==
    /\ glPc["handler"] = "idle"
    /\ glPc' = [glPc EXCEPT !["handler"] = "start_once"]
    /\ UNCHANGED <<glProc, alive, launched, old, cooling, wdFail, wdLog>>
    /\ UNCHANGED <<orchVars, authVars, stableVars, otpVars, urlVars, pickVars, csvVars,
                 mailVars, srvVars, runVars, tokVars, navVars, quotaVars,
                 syncVars, retryVars>>

\* lines 432-521: the request is answered; after a proxy error past the
\* startup grace a thread running _restart_gpt_load is started
ProxyAnswer ==
    /\ glPc["handler"] = "proxy"
    /\ \E restart \in BOOLEAN :
          glPc' = [glPc EXCEPT !["handler"] = "idle",
                               !["restarter"] = IF restart /\ @ = "idle" THEN "restart" ELSE @]
    /\ UNCHANGED <<glProc, alive, launched, old, cooling, wdFail, wdLog>>
    /\ UNCHANGED <<orchVars, authVars, stableVars, otpVars, urlVars, pickVars, csvVars,
                 mailVars, srvVars, runVars, tokVars, navVars, quotaVars,
                 syncVars, retryVars>>

\* a watchdog that keeps its count over a restart
WatchdogAfterRestartKeepsCount ==
    /\ glPc["watchdog"] = "reset"
    /\ glPc' = [glPc EXCEPT !["watchdog"] = "probe"]
    /\ UNCHANGED <<glProc, alive, launched, old, cooling, wdFail, wdLog>>
    /\ UNCHANGED <<orchVars, authVars, stableVars, otpVars, urlVars, pickVars, csvVars,
                 mailVars, srvVars, runVars, tokVars, navVars, quotaVars,
                 syncVars, retryVars>>

\* line 287: fail = 0 after _restart_gpt_load has returned
WatchdogAfterRestart ==
    /\ glPc["watchdog"] = "reset"
    /\ wdFail' = 0
    /\ glPc' = [glPc EXCEPT !["watchdog"] = "probe"]
    /\ UNCHANGED <<glProc, alive, launched, old, cooling, wdLog>>
    /\ UNCHANGED <<orchVars, authVars, stableVars, otpVars, urlVars, pickVars, csvVars,
                 mailVars, srvVars, runVars, tokVars, navVars, quotaVars,
                 syncVars, retryVars>>

\* lines 280-286 and 249-266: one probe; it can only succeed while a
\* process listens; the third failure in a row calls _restart_gpt_load
WatchdogProbe ==
    /\ glPc["watchdog"] = "probe"
    /\ Len(wdLog) < MaxWatchdogRounds
    /\ \E ok \in BOOLEAN :
          /\ ok => alive # {}
          /\ IF ok
             THEN /\ wdFail' = 0
                  /\ wdLog' = Append(wdLog, "ok")
                  /\ UNCHANGED glPc
             ELSE /\ wdFail' = wdFail + 1
                  /\ IF wdFail + 1 >= FailLimit
                     THEN /\ wdLog' = wdLog \o <<"failed", "restart">>
                          /\ glPc' = [glPc EXCEPT !["watchdog"] = "restart"]
                     ELSE /\ wdLog' = Append(wdLog, "failed")
                          /\ UNCHANGED glPc
    /\ UNCHANGED <<glProc, alive, launched, old, cooling>>
    /\ UNCHANGED <<orchVars, authVars, stableVars, otpVars, urlVars, pickVars, csvVars,
                 mailVars, srvVars, runVars, tokVars, navVars, quotaVars,
                 syncVars, retryVars>>

NextGl ==
    \/ \E t \in GlThreads : StartGptLoadOnce(t)
    \/ \E t \in Restarting : RestartTakeProc(t)
    \/ \E t \in Restarting : RestartTerminateOld(t)
    \/ CooldownPasses
    \/ \E p \in 1 .. MaxLaunches : ProcExits(p)
    \/ ProxyRequest
    \/ ProxyAnswer
    \/ WatchdogAfterRestart
    \/ WatchdogProbe

SpecGl == InitGl /\ [][NextGl]_vars

\* the failed probes at the end of the first n entries of wdLog
RECURSIVE FailedRun(_)
FailedRun(n) ==
    IF n = 0 \/ wdLog[n] # "failed" THEN 0 ELSE 1 + FailedRun(n - 1)

\* C38: every restart request of the watchdog comes right after three
\* failed probes of its own, with no successful probe and no other restart
\* request among them; the count is the number of failed probes since the
\* last successful probe or restart request, at most 2 between rounds
C38_RestartAfterThreeFailuresInARow ==
    /\ \A j \in 1 .. Len(wdLog) :
          wdLog[j] = "restart" =>
             /\ j > FailLimit
             /\ \A k \in (j - FailLimit) .. (j - 1) : wdLog[k] = "failed"
             /\ (j > FailLimit + 1) => wdLog[j - FailLimit - 1] # "failed"
    /\ glPc["watchdog"] = "probe" =>
          /\ wdFail = FailedRun(Len(wdLog))
          /\ wdFail < FailLimit
    /\ glPc["watchdog"] # "probe" => wdLog[Len(wdLog)] = "restart"

\* two restart requests, each after three failures of its own
C38_Witness ==
    /\ wdLog = <<"failed", "failed", "failed", "restart",
                 "failed", "failed", "failed", "restart">>

\* a successful probe after two failures: the restart comes three later
C38_WitnessReset ==
    /\ wdLog = <<"failed", "failed", "ok", "failed", "failed", "failed", "restart">>

\* C39: at most one launched gpt-load process has not yet exited
C39_AtMostOneProcessAlive == Cardinality(alive) <= 1

====
